---------------------------- MODULE Spec2Model ----------------------------
(***************************************************************************)
(* Concrete mix design: the aggregate optimizer (modules/optimization.py), *)
(* the grading primitives it uses (modules/power45.py) and the Faury-      *)
(* Joisel design entry point (modules/faury_joisel.py).                    *)
(*                                                                         *)
(* Number representation.  The Python code works on floats; the model uses *)
(* exact fixed-point integers:                                             *)
(*   - a proportion is an integer number of 1/300 of a percentage point    *)
(*     (100 % = 30000), so that 100/3 % and every value with two decimals  *)
(*     are both exact;                                                     *)
(*   - a gradation supplied by the caller is in whole percent passing;     *)
(*   - a blend is in "q" units, 1/300 of a hundredth of a percent          *)
(*     (1 % = 30000 q), so that gradation * proportion is exact;           *)
(*   - a squared deviation is a mixed number [hi, lo] meaning              *)
(*     hi + lo/90000 in units of 1e-4 %^2 (the fourth decimal);            *)
(*   - optimizer weights are in tenths, and an objective value is carried  *)
(*     multiplied by ten.                                                  *)
(* round(v, n) is Python's round-half-to-even, applied to the exact value. *)
(***************************************************************************)
EXTENDS Integers, Sequences, FiniteSets, TLC

\* ------------------------------------------------------------------------
\* Arithmetic helpers
\* ------------------------------------------------------------------------

\* q units per hundredth of a percent, and proportion units per percent.
Q == 3 * 100

\* q units per percent.
QPct == Q * 100

\* Denominator of the fractional part of a squared deviation.
QQ == Q * Q

Abs(n) == IF n < 0 THEN 0 - n ELSE n

Max2(a, b) == IF a >= b THEN a ELSE b

Min2(a, b) == IF a <= b THEN a ELSE b

\* Python round(): num/den (den > 0) rounded to the nearest integer, ties to even.
RoundHalfEven(num, den) ==
  LET n == Abs(num)
      q == n \div den
      r == n % den
      m == IF 2 * r > den \/ (2 * r = den /\ q % 2 = 1) THEN q + 1 ELSE q
  IN IF num < 0 THEN 0 - m ELSE m

RECURSIVE SumSeq(_)
SumSeq(s) == IF Len(s) = 0 THEN 0 ELSE Head(s) + SumSeq(Tail(s))

\* Python slice s[a:b] with 0-based bounds, clipped to the sequence.
Slice(s, a, b) == SubSeq(s, a + 1, Min2(b, Len(s)))

\* Mixed numbers: [hi, lo] is hi + lo/QQ, 0 <= lo < QQ.
MZero == [hi |-> 0, lo |-> 0]

MInt(n) == [hi |-> n, lo |-> 0]

\* The square of a q-valued difference d, exactly, in units of 1e-4 %^2.
MSquare(d) ==
  LET n == Abs(d)
      a == n \div Q
      b == n % Q
      rest == 2 * a * b * Q + b * b
  IN [hi |-> a * a + rest \div QQ, lo |-> rest % QQ]

MAdd(m, n) ==
  [hi |-> m.hi + n.hi + (m.lo + n.lo) \div QQ, lo |-> (m.lo + n.lo) % QQ]

\* m * k for a small natural k.
MScale(m, k) ==
  [hi |-> m.hi * k + (m.lo * k) \div QQ, lo |-> (m.lo * k) % QQ]

MLess(m, n) == m.hi < n.hi \/ (m.hi = n.hi /\ m.lo < n.lo)

\* round(m, 4): to the nearest unit of 1e-4, ties to even.
MRound(m) ==
  IF 2 * m.lo > QQ \/ (2 * m.lo = QQ /\ m.hi % 2 = 1) THEN m.hi + 1 ELSE m.hi

\* round(m / 10, 4) for an objective carried multiplied by ten.
MRoundTenth(m) ==
  LET q == m.hi \div 10
      r == (m.hi % 10) * QQ + m.lo
  IN IF r > 5 * QQ \/ (r = 5 * QQ /\ q % 2 = 1) THEN q + 1 ELSE q

RECURSIVE MSumSquares(_)
MSumSquares(ds) ==
  IF Len(ds) = 0 THEN MZero ELSE MAdd(MSquare(Head(ds)), MSumSquares(Tail(ds)))

\* ------------------------------------------------------------------------
\* modules/power45.py
\* ------------------------------------------------------------------------

\* Sieve sizes and nominal sizes are in micrometres.
TAMICES_POWER45 ==
  <<50000, 37500, 25000, 19000, 12500, 9500, 4750, 2360, 1180, 600, 300, 150, 75>>

\* size ** 0.45 for size in mm, times 100000, for the sizes the model uses.
Pow45Tabla ==
  [t \in {75000, 50000, 40000, 37500, 25000, 20000, 19000, 12500, 10000, 9500,
          4750, 2360, 1180, 600, 300, 150, 100, 75, 50} |->
     CASE t = 75000 -> 697875 [] t = 100 -> 35481 [] t = 50 -> 25974
       [] t = 50000 -> 581482 [] t = 40000 -> 525929 [] t = 37500 -> 510874
       [] t = 25000 -> 425670 [] t = 20000 -> 385002 [] t = 19000 -> 376218
       [] t = 12500 -> 311609 [] t = 10000 -> 281838 [] t = 9500 -> 275407
       [] t = 4750 -> 201610 [] t = 2360 -> 147167 [] t = 1180 -> 107733
       [] t = 600 -> 79464 [] t = 300 -> 58171 [] t = 150 -> 42583
       [] t = 75 -> 31173]

calcular_valor_power45(tamiz) == IF tamiz <= 0 THEN 0 ELSE Pow45Tabla[tamiz]

\* a / c * 100 percent in q units, for 0 <= a <= c, computed in two steps to
\* stay within 32 bits.
PorcentajeQ(a, c) ==
  LET x1 == a * 3000
  IN (x1 \div c) * 1000 + RoundHalfEven((x1 % c) * 1000, c)

\* A variant of the ideal curve that falls where the code's rises.
CurvaIdealInvertida(tmn) ==
  LET tamices == TAMICES_POWER45
      max_valor == calcular_valor_power45(tmn)
      min_valor == calcular_valor_power45(tamices[Len(tamices)])
  IN [i \in 1..Len(tamices) |->
        IF tamices[i] >= tmn THEN 100 * QPct
        ELSE IF max_valor - min_valor > 0
             THEN 100 * QPct
                    - Max2(0, Min2(100 * QPct,
                        PorcentajeQ(calcular_valor_power45(tamices[i]) - min_valor,
                                    max_valor - min_valor)))
             ELSE 50 * QPct]

\* The ideal curve over the default sieves, in q units.
generar_curva_ideal_power45(tmn) ==
  LET tamices == TAMICES_POWER45
      max_valor == calcular_valor_power45(tmn)
      min_valor == calcular_valor_power45(tamices[Len(tamices)])
  IN [i \in 1..Len(tamices) |->
        IF tamices[i] >= tmn THEN 100 * QPct
        ELSE IF max_valor - min_valor > 0
             THEN Max2(0, Min2(100 * QPct,
                    PorcentajeQ(calcular_valor_power45(tamices[i]) - min_valor,
                                max_valor - min_valor)))
             ELSE 50 * QPct]

\* mezcla and ideal in q units; 'cuadratico', rounded to 4 decimals.
calcular_error_power45(mezcla_pct, ideal_pct) ==
  LET n == Min2(Len(mezcla_pct), Len(ideal_pct))
  IN MInt(MRound(MSumSquares([i \in 1..n |-> mezcla_pct[i] - ideal_pct[i]])))

\* Retained per sieve from percent passing (q units), negative values clamped.
\* A variant that takes each difference the other way round.
RetenidoInvertido(pasa) ==
  [i \in 1..Len(pasa) |->
     Max2(0, IF i = 1 THEN QPct * 100 - pasa[i] ELSE pasa[i] - pasa[i - 1])]

calcular_retenido(pasa) ==
  [i \in 1..Len(pasa) |->
     Max2(0, IF i = 1 THEN QPct * 100 - pasa[i] ELSE pasa[i - 1] - pasa[i])]

\* Blend normalised by the sum of the proportions, rounded to 2 decimals (q units).
calcular_mezcla_granulometrica(proporciones, granulometrias) ==
  IF Len(proporciones) = 0 \/ Len(granulometrias) = 0 THEN <<>>
  ELSE
    LET total_prop == SumSeq(proporciones)
        n == Len(proporciones)
        num_tamices == Len(granulometrias[1])
        \* fracciones[j] = peso(j) / den
        peso(j) == IF total_prop > 0 THEN proporciones[j] ELSE 1
        den == IF total_prop > 0 THEN total_prop ELSE n
        aporte(i, j) ==
          IF j <= Len(granulometrias) /\ i <= Len(granulometrias[j])
          THEN peso(j) * granulometrias[j][i] ELSE 0
    IN [i \in 1..num_tamices |->
          Q * RoundHalfEven(100 * SumSeq([j \in 1..n |-> aporte(i, j)]), den)]


\* ------------------------------------------------------------------------
\* modules/optimization.py: limit tables and penalty functions
\* ------------------------------------------------------------------------

\* Python's None inside a limit pair.
None == -1

\* Haystack limits, percent passing (min, max), keyed by 0-based sieve index.
HAYSTACK_LIMITS_INICIAL ==
  [i \in 0..12 |->
     CASE i = 0 -> <<100, 100>> [] i = 1 -> <<95, 100>>
       [] i = 8 -> <<50, 85>> [] i = 9 -> <<25, 60>> [] i = 10 -> <<10, 30>>
       [] i = 11 -> <<2, 10>> [] i = 12 -> <<0, 5>>
       [] OTHER -> <<None, None>>]

\* Tarantula limits, percent retained (max, min), keyed by 0-based sieve index.
TARANTULA_LIMITS_INICIAL ==
  [i \in 0..12 |->
     CASE i = 0 -> <<0, 0>> [] i = 1 -> <<16, 0>> [] i = 2 -> <<20, 0>>
       [] i = 3 -> <<20, 0>> [] i = 4 -> <<20, 4>> [] i = 5 -> <<20, 4>>
       [] i = 6 -> <<20, 4>> [] i = 7 -> <<12, 0>> [] i = 8 -> <<12, 0>>
       [] i = 9 -> <<20, 4>> [] i = 10 -> <<20, 4>> [] i = 11 -> <<10, 0>>
       [] i = 12 -> <<5, 0>>]

\* Shilstone limits: fine fraction (min, max) and coarse fraction (min, None).
SHILSTONE_LIMITS ==
  [fraccion_fina |-> <<24, 34>>, fraccion_gruesa |-> <<15, None>>]

RECURSIVE MSum(_)
MSum(ms) == IF Len(ms) = 0 THEN MZero ELSE MAdd(Head(ms), MSum(Tail(ms)))

\* (lim - v)^2 when v is below lim, else 0; lim in percent, v in q units.
PenBajo(v, lim) == IF v < lim * QPct THEN MSquare(lim * QPct - v) ELSE MZero

\* (v - lim)^2 when v is above lim, else 0.
PenAlto(v, lim) == IF v > lim * QPct THEN MSquare(v - lim * QPct) ELSE MZero

\* limits is the module-level table HAYSTACK_LIMITS as it stands at the call.
calcular_penalizacion_haystack(mezcla_pct, limits) ==
  MSum([k \in 1..Len(mezcla_pct) |->
    IF (k - 1) \in DOMAIN limits
    THEN LET min_lim == limits[k - 1][1]
             max_lim == limits[k - 1][2]
         IN MAdd(IF min_lim /= None THEN PenBajo(mezcla_pct[k], min_lim) ELSE MZero,
                 IF max_lim /= None THEN PenAlto(mezcla_pct[k], max_lim) ELSE MZero)
    ELSE MZero])

\* limits is the module-level table TARANTULA_LIMITS as it stands at the call.
calcular_penalizacion_tarantula(mezcla_pct, limits) ==
  LET retenido == calcular_retenido(mezcla_pct)
  IN MSum([k \in 1..Len(retenido) |->
       IF (k - 1) \in DOMAIN limits
       THEN LET max_lim == limits[k - 1][1]
                min_lim == limits[k - 1][2]
            IN MAdd(PenAlto(retenido[k], max_lim), PenBajo(retenido[k], min_lim))
       ELSE MZero])

calcular_penalizacion_shilstone(mezcla_pct) ==
  LET retenido == calcular_retenido(mezcla_pct)
      fraccion_fina ==
        IF Len(retenido) > 12 THEN SumSeq(Slice(retenido, 9, 13))
        ELSE IF Len(retenido) > 9 THEN SumSeq(Slice(retenido, 9, Len(retenido)))
        ELSE 0
      fraccion_gruesa ==
        IF Len(retenido) > 9 THEN SumSeq(Slice(retenido, 3, 9)) ELSE 0
      min_fina == SHILSTONE_LIMITS.fraccion_fina[1]
      max_fina == SHILSTONE_LIMITS.fraccion_fina[2]
      min_gruesa == SHILSTONE_LIMITS.fraccion_gruesa[1]
  IN MAdd(MAdd(PenBajo(fraccion_fina, min_fina), PenAlto(fraccion_fina, max_fina)),
          PenBajo(fraccion_gruesa, min_gruesa))

\* evaluar_cumplimiento_restricciones: for each criterion whether the blend
\* (q units) complies and how many violations are listed.  hay and tar are the
\* module-level tables as they stand at the call.  The Shilstone part tests the
\* fine fraction only.
evaluar_cumplimiento_restricciones(mezcla_pct, hay, tar) ==
  LET retenido == calcular_retenido(mezcla_pct)
      haystack_violaciones ==
        {<<k, lado>> \in (1..Len(mezcla_pct)) \X {"min", "max"} :
           /\ (k - 1) \in DOMAIN hay
           /\ IF lado = "min"
              THEN hay[k - 1][1] /= None /\ mezcla_pct[k] < hay[k - 1][1] * QPct
              ELSE hay[k - 1][2] /= None /\ mezcla_pct[k] > hay[k - 1][2] * QPct}
      tarantula_violaciones ==
        {<<k, lado>> \in (1..Len(retenido)) \X {"max", "min"} :
           /\ (k - 1) \in DOMAIN tar
           /\ IF lado = "max" THEN retenido[k] > tar[k - 1][1] * QPct
              ELSE retenido[k] < tar[k - 1][2] * QPct}
      fraccion_fina ==
        IF Len(retenido) > 12 THEN SumSeq(Slice(retenido, 9, 13))
        ELSE IF Len(retenido) > 9 THEN SumSeq(Slice(retenido, 9, Len(retenido)))
        ELSE 0
      min_fina == SHILSTONE_LIMITS.fraccion_fina[1]
      max_fina == SHILSTONE_LIMITS.fraccion_fina[2]
      shilstone_violaciones ==
        {lado \in {"min", "max"} :
           IF lado = "min" THEN fraccion_fina < min_fina * QPct
           ELSE fraccion_fina > max_fina * QPct}
  IN [haystack |-> [cumple |-> haystack_violaciones = {},
                    violaciones |-> Cardinality(haystack_violaciones)],
      tarantula |-> [cumple |-> tarantula_violaciones = {},
                     violaciones |-> Cardinality(tarantula_violaciones)],
      shilstone |-> [cumple |-> shilstone_violaciones = {},
                     violaciones |-> Cardinality(shilstone_violaciones)],
      cumple_todo |-> /\ haystack_violaciones = {}
                      /\ tarantula_violaciones = {}
                      /\ shilstone_violaciones = {}]

\* round(100 * a / b, 2) in hundredths, for 0 <= a and 0 < b (q units).
RazonCenti(a, b) ==
  LET q1 == a \div b
      r1 == a % b
      q2 == (r1 * 100) \div b
      r2 == (r1 * 100) % b
  IN 10000 * q1 + 100 * q2 + RoundHalfEven(r2 * 100, b)

\* Coarseness and workability factors, in hundredths; reads 0-based indices 4 and 6.
calcular_factores_shilstone(mezcla_pct) ==
  IF Len(mezcla_pct) < 7 THEN [cf |-> 0, wf |-> 0]
  ELSE
    LET pasa_38 == mezcla_pct[4 + 1]
        pasa_8 == mezcla_pct[6 + 1]
        acum_ret_38 == QPct * 100 - pasa_38
        acum_ret_8 == QPct * 100 - pasa_8
        cf == IF acum_ret_8 > 0
              THEN (IF acum_ret_38 >= 0 THEN RazonCenti(acum_ret_38, acum_ret_8)
                    ELSE 0 - RazonCenti(0 - acum_ret_38, acum_ret_8))
              ELSE 0
    IN [cf |-> cf, wf |-> RoundHalfEven(pasa_8, Q)]

\* Sum over the aggregates of gradation * proportion / 100, not rounded (q units).
\* The densities are accepted and not used.
calcular_mezcla_volumetrica(proporciones, granulometrias, densidades) ==
  LET n_aridos == Len(proporciones)
      n_tamices == Len(granulometrias[1])
  IN [k \in 1..n_tamices |->
        SumSeq([i \in 1..n_aridos |-> granulometrias[i][k] * proporciones[i]])]

\* Objective value returned when the blend is empty (1e10 in the code): larger
\* than every objective the model can compute.
OBJETIVO_ERROR == [hi |-> 2000000000, lo |-> 0]

\* The objective, multiplied by ten; weights in tenths.  hay and tar are the
\* module-level limit tables read by the penalty functions.
funcion_objetivo(x, granulometrias, ideal_power45, densidades, peso_haystack, peso_tarantula, peso_shilstone, hay, tar) ==
  LET mezcla0 == IF Len(densidades) > 0
                 THEN calcular_mezcla_volumetrica(x, granulometrias, densidades)
                 ELSE calcular_mezcla_granulometrica(x, granulometrias)
      min_len == Min2(Len(mezcla0), Len(ideal_power45))
      mezcla == SubSeq(mezcla0, 1, min_len)
      ideal == SubSeq(ideal_power45, 1, min_len)
      error_p45 == calcular_error_power45(mezcla, ideal)
      pen_haystack == calcular_penalizacion_haystack(mezcla, hay)
      pen_tarantula == calcular_penalizacion_tarantula(mezcla, tar)
      pen_shilstone == calcular_penalizacion_shilstone(mezcla)
  IN IF Len(mezcla0) = 0 THEN OBJETIVO_ERROR
     ELSE MAdd(MAdd(MScale(error_p45, 10), MScale(pen_haystack, peso_haystack)),
               MAdd(MScale(pen_tarantula, peso_tarantula),
                    MScale(pen_shilstone, peso_shilstone)))

\* The default weights of funcion_objetivo's own signature (0.3, 0.3, 0.2).
PESOS_FUNCION_OBJETIVO == [haystack |-> 3, tarantula |-> 3, shilstone |-> 2]

restriccion_suma_100(x) == SumSeq(x) - 100 * Q

\* ------------------------------------------------------------------------
\* modules/optimization.py: optimizar_agregados
\* ------------------------------------------------------------------------

\* A result dictionary.  claves is the set of keys the dictionary holds; a
\* field whose key is absent keeps the value it has here.  kind is
\*   "vacio"     the early return for an empty gradation list,
\*   "exito"     the accepted solve,
\*   "no_optimo" the solve that neither succeeded nor improved,
\*   "error"     the except branch,
\*   "excepcion" no dictionary at all: the call raised to its caller.
\* proporciones is in proportion units; blends and factors are in hundredths;
\* errors are in units of 1e-4; error_total is a mixed number times ten.
ResNinguno ==
  [kind |-> "ninguno", claves |-> {}, exito |-> FALSE, proporciones |-> <<>>,
   mezcla_granulometria |-> <<>>, mezcla_retenido |-> <<>>,
   shilstone_factors |-> [cf |-> 0, wf |-> 0], curva_ideal |-> <<>>,
   error_power45 |-> 0, error_haystack |-> 0, error_tarantula |-> 0,
   error_shilstone |-> 0, error_total |-> MZero,
   mensaje |-> <<"", "">>, excepcion |-> ""]

\* The call raised: there is no result.
ResExcepcion(nombre) == [ResNinguno EXCEPT !.kind = "excepcion", !.excepcion = nombre]

\* What scipy's minimize did: it raised (mensaje is str(e)), or it returned
\* success, x and message; fun is the objective at x.
SinSolver == [raises |-> FALSE, success |-> FALSE, x |-> <<>>, mensaje |-> ""]

\* Lines 334-342: every gradation padded with zeros or cut to the ideal's length.
AjustarLongitud(g, len_objetivo) ==
  [k \in 1..len_objetivo |-> IF k <= Len(g) THEN g[k] ELSE 0]

\* A starting point that skips the normalisation of line 352: the caller's
\* weights (or 100 / num_agregados each) taken as percentages.
PuntoInicialSinNormalizar(proporciones_iniciales, num_agregados) ==
  IF Len(proporciones_iniciales) > 0 /\ Len(proporciones_iniciales) = num_agregados
  THEN [j \in 1..num_agregados |-> proporciones_iniciales[j] * Q]
  ELSE [j \in 1..num_agregados |-> RoundHalfEven(100 * Q, num_agregados)]

\* Lines 344-352: the starting point, normalised to sum 100.
PuntoInicial(proporciones_iniciales, num_agregados) ==
  LET x0 == IF Len(proporciones_iniciales) > 0
               /\ Len(proporciones_iniciales) = num_agregados
            THEN proporciones_iniciales
            ELSE [j \in 1..num_agregados |-> 100]
  IN [j \in 1..num_agregados |-> RoundHalfEven(x0[j] * 100 * Q, SumSeq(x0))]

\* Line 383: the solver's result is accepted.
Aceptado(success, fun, x0, granulometrias_ajustadas, ideal, densidades_ajustadas, pesos, hay, tar) ==
  \/ success
  \/ MLess(fun, funcion_objetivo(x0, granulometrias_ajustadas, ideal,
                                 densidades_ajustadas,
                                 PESOS_FUNCION_OBJETIVO.haystack,
                                 PESOS_FUNCION_OBJETIVO.tarantula,
                                 PESOS_FUNCION_OBJETIVO.shilstone, hay, tar))

\* Line 403: the proportions as returned on success.
ProporcionesDevueltas(proporciones_optimas) ==
  [j \in 1..Len(proporciones_optimas) |->
     (Q \div 100) * RoundHalfEven(proporciones_optimas[j] * 100, Q)]

\* Lines 385-415: the success dictionary.
ResExito(x, fun, granulometrias_ajustadas, ideal, densidades_ajustadas, hay, tar) ==
  LET proporciones_optimas == x
      mezcla_optima ==
        IF Len(densidades_ajustadas) > 0
        THEN calcular_mezcla_volumetrica(proporciones_optimas,
                                         granulometrias_ajustadas, densidades_ajustadas)
        ELSE calcular_mezcla_granulometrica(proporciones_optimas,
                                            granulometrias_ajustadas)
      retenido_optima == calcular_retenido(mezcla_optima)
  IN [ResNinguno EXCEPT
        !.kind = "exito",
        !.claves = {"exito", "proporciones", "mezcla_granulometria", "mezcla_retenido",
                    "shilstone_factors", "curva_ideal", "error_power45",
                    "error_haystack", "error_tarantula", "error_shilstone",
                    "error_total", "iteraciones", "mensaje"},
        !.exito = TRUE,
        !.proporciones = ProporcionesDevueltas(proporciones_optimas),
        !.mezcla_granulometria =
           [k \in 1..Len(mezcla_optima) |-> RoundHalfEven(mezcla_optima[k], Q)],
        !.mezcla_retenido =
           [k \in 1..Len(retenido_optima) |-> RoundHalfEven(retenido_optima[k], Q)],
        !.shilstone_factors = calcular_factores_shilstone(mezcla_optima),
        !.curva_ideal = [k \in 1..Len(ideal) |-> RoundHalfEven(ideal[k], Q)],
        !.error_power45 =
           calcular_error_power45(mezcla_optima,
                                  SubSeq(ideal, 1, Min2(Len(ideal), Len(mezcla_optima)))).hi,
        !.error_haystack = MRound(calcular_penalizacion_haystack(mezcla_optima, hay)),
        !.error_tarantula = MRound(calcular_penalizacion_tarantula(mezcla_optima, tar)),
        !.error_shilstone = MRound(calcular_penalizacion_shilstone(mezcla_optima)),
        !.error_total = MInt(10 * MRoundTenth(fun)),
        !.mensaje = <<"Optimización exitosa", "">>]

\* optimizar_agregados.  proporciones_iniciales and densidades are <<>> for
\* None; pesos is the record of the three weights; solver is what minimize
\* does when it is reached; hay and tar are the module-level limit tables.
optimizar_agregados(granulometrias, tmn, num_agregados_arg, proporciones_iniciales, densidades, pesos, solver, hay, tar) ==
  IF Len(granulometrias) = 0
  THEN [ResNinguno EXCEPT !.kind = "vacio", !.claves = {"exito", "mensaje"},
                          !.mensaje = <<"No se proporcionaron granulometrías", "">>]
  ELSE
    LET num_agregados == Min2(Len(granulometrias), num_agregados_arg)
        ideal == generar_curva_ideal_power45(tmn)
        len_objetivo == Len(ideal)
        granulometrias_ajustadas ==
          [j \in 1..num_agregados |-> AjustarLongitud(granulometrias[j], len_objetivo)]
        x0 == PuntoInicial(proporciones_iniciales, num_agregados)
        densidades_ajustadas == SubSeq(densidades, 1, Min2(num_agregados, Len(densidades)))
        fun == funcion_objetivo(solver.x, granulometrias_ajustadas, ideal,
                                densidades_ajustadas, pesos.haystack, pesos.tarantula,
                                pesos.shilstone, hay, tar)
    IN IF num_agregados = 0
       THEN \* line 349, before the try: 100 / num_agregados
            ResExcepcion("ZeroDivisionError")
       ELSE IF solver.raises
       THEN [ResNinguno EXCEPT
               !.kind = "error", !.claves = {"exito", "proporciones", "mensaje"},
               !.proporciones = x0,
               !.mensaje = <<"Error durante la optimización: ", solver.mensaje>>]
       ELSE IF Aceptado(solver.success, fun, x0, granulometrias_ajustadas, ideal,
                        densidades_ajustadas, pesos, hay, tar)
       THEN ResExito(solver.x, fun, granulometrias_ajustadas, ideal,
                     densidades_ajustadas, hay, tar)
       ELSE [ResNinguno EXCEPT
               !.kind = "no_optimo",
               !.claves = {"exito", "proporciones", "mensaje", "error_total"},
               !.proporciones = x0,
               !.mensaje = <<"No se encontró solución óptima: ", solver.mensaje>>,
               !.error_total = fun]

\* A dictionary of custom limits laid over a limit table (lines 455-461).
AplicarRestricciones(tabla, restricciones) ==
  [i \in (DOMAIN tabla) \cup (DOMAIN restricciones) |->
     IF i \in DOMAIN restricciones THEN restricciones[i] ELSE tabla[i]]

\* optimizar_con_restricciones_personalizadas: the two module-level tables after
\* the call, and the result.  lower and upper are computed from
\* limites_proporciones (lines 466-471) and passed nowhere; the inner call
\* takes its weights from its defaults (pesos_por_defecto).
optimizar_con_restricciones_personalizadas(granulometrias, tmn, restricciones_haystack, restricciones_tarantula, limites_proporciones, pesos_por_defecto, solver, hay, tar) ==
  LET hay2 == AplicarRestricciones(hay, restricciones_haystack)
      tar2 == AplicarRestricciones(tar, restricciones_tarantula)
      num_agregados == Len(granulometrias)
  IN [hay |-> hay2, tar |-> tar2,
      res |-> optimizar_agregados(granulometrias, tmn, num_agregados, <<>>, <<>>,
                                  pesos_por_defecto, solver, hay2, tar2)]

\* pages/1_Diseno.py lines 356-362: the page calls optimizar_agregados with the
\* keyword limites_minimos, which the function's signature (lines 297-305) does
\* not have: Python raises TypeError at the call.
PaginaOptimizar(granulometrias, tmn, densidades, limites_minimos, pesos) ==
  ResExcepcion("TypeError")

\* ------------------------------------------------------------------------
\* modules/faury_joisel.py and config/config.py
\* ------------------------------------------------------------------------
\* Units: fc in MPa; the standard deviation in tenths of a MPa; the defective
\* fraction in whole percent; t in units of 1/5000; fd_mpa in units of
\* 1/50000 MPa; fd_kgcm2 and the cement in whole kg; a water/cement ratio in
\* units of 1e-4 (the reported ratio in units of 1e-3); water in units of
\* 1e-4 litre (the reported water in tenths of a litre).

\* Coefficient t by defective fraction in percent, times 1000.
TABLA_COEF_T == [f \in {5, 10, 15, 20} |->
  CASE f = 5 -> 1645 [] f = 10 -> 1282 [] f = 15 -> 1036 [] f = 20 -> 842]

\* Water/cement ratio by strength in kg/cm2, times 100.
TABLA_AC == [r \in {200, 250, 300, 350, 400, 450, 500, 550} |->
  CASE r = 200 -> 65 [] r = 250 -> 60 [] r = 300 -> 52 [] r = 350 -> 47
    [] r = 400 -> 43 [] r = 450 -> 40 [] r = 500 -> 37 [] r = 550 -> 34]

\* The largest key of a table that is <= v (v is within the table's range).
ClaveInferior(tabla, v) ==
  CHOOSE k \in DOMAIN tabla :
    k <= v /\ \A k2 \in DOMAIN tabla : (k2 <= v) => (k2 <= k)

\* The smallest key of a table that is above k.
ClaveSiguiente(tabla, k) ==
  CHOOSE k2 \in DOMAIN tabla :
    k2 > k /\ \A k3 \in DOMAIN tabla : (k3 > k) => (k2 <= k3)

\* Linear interpolation in the t table; the result is in units of 1/5000.
obtener_coeficiente_t(fraccion_defectuosa) ==
  IF fraccion_defectuosa <= 5 THEN 5 * TABLA_COEF_T[5]
  ELSE IF fraccion_defectuosa >= 20 THEN 5 * TABLA_COEF_T[20]
  ELSE LET f_inf == ClaveInferior(TABLA_COEF_T, fraccion_defectuosa)
           f_sup == ClaveSiguiente(TABLA_COEF_T, f_inf)
       IN 5 * TABLA_COEF_T[f_inf]
          + (fraccion_defectuosa - f_inf) * (TABLA_COEF_T[f_sup] - TABLA_COEF_T[f_inf])

\* fd = fc + s * t, and fd in kg/cm2 rounded to a multiple of 5.
calcular_resistencia_media(fc, s, fraccion_def) ==
  LET t == obtener_coeficiente_t(fraccion_def)
      fd_mpa == fc * 50000 + s * t
  IN [fd_mpa |-> fd_mpa, fd_kgcm2 |-> 5 * RoundHalfEven(fd_mpa * 51, 1250000)]

\* C = fd * 0.95 rounded to a multiple of 5.
calcular_cemento(fd_kgcm2) == 5 * RoundHalfEven(fd_kgcm2 * 19, 100)

\* Linear interpolation in the water/cement table; the result is in units of 1e-4.
obtener_razon_ac(fd_kgcm2) ==
  IF fd_kgcm2 <= 200 THEN 100 * TABLA_AC[200]
  ELSE IF fd_kgcm2 >= 550 THEN 100 * TABLA_AC[550]
  ELSE LET r_inf == ClaveInferior(TABLA_AC, fd_kgcm2)
           r_sup == ClaveSiguiente(TABLA_AC, r_inf)
       IN 100 * TABLA_AC[r_inf]
          + 2 * (fd_kgcm2 - r_inf) * (TABLA_AC[r_sup] - TABLA_AC[r_inf])

\* A ratio choice that ignores the manual ratio and always reads the table.
RazonACSoloTabla(manual_ac, fd_kgcm2) == obtener_razon_ac(fd_kgcm2)

\* Lines 459-462: the manual ratio when one is given and positive, else the table.
RazonAC(manual_ac, fd_kgcm2) ==
  IF manual_ac /= None /\ manual_ac > 0 THEN manual_ac
  ELSE obtener_razon_ac(fd_kgcm2)

\* Further units of the design: a nominal size in micrometres; a volume in
\* units of 1e-4 litre; the extra-air percentage and an admixture's dose in
\* tenths of a percent; the manual air in tenths of a litre; an admixture's
\* density in hundredths of a kg/L; the compactness in units of 1e-7; a
\* volumetric or weight fraction in units of 1e-8; a mass in units of
\* 1e-4 kg; a blend value in units of 1e-6 percent (reported in tenths).

\* One litre in the volume unit.
VL == 100 * 100

\* The fraction 1.0.
UNO == VL * VL

\* One percent in the unit of the design's blend.
PCT == 100 * VL

RECURSIVE MulDivQR(_, _, _)
\* <<quotient, remainder>> of a * b divided by c, for a, b >= 0 and c > 0,
\* by doubling, so that no intermediate value leaves 32 bits.
MulDivQR(a, b, c) ==
  IF b = 0 THEN <<0, 0>>
  ELSE LET h == MulDivQR(a, b \div 2, c)
           suma == 2 * h[2] + (IF b % 2 = 1 THEN a % c ELSE 0)
       IN <<2 * h[1] + (IF b % 2 = 1 THEN a \div c ELSE 0) + suma \div c, suma % c>>

\* a * b / c, c /= 0, rounded to the nearest integer, ties to even.
MulDivRound(a, b, c) ==
  LET qr == MulDivQR(Abs(a), Abs(b), Abs(c))
      m == IF 2 * qr[2] > Abs(c) \/ (2 * qr[2] = Abs(c) /\ qr[1] % 2 = 1)
           THEN qr[1] + 1 ELSE qr[1]
  IN IF ((a < 0) /= (b < 0)) /= (c < 0) THEN 0 - m ELSE m

\* Entrapped air in litres by nominal size in micrometres.
TABLA_AIRE == [d \in {10000, 12500, 20000, 25000, 40000, 50000} |->
  CASE d = 10000 -> 50 [] d = 12500 -> 45 [] d = 20000 -> 40 [] d = 25000 -> 35
    [] d = 40000 -> 25 [] d = 50000 -> 20]

\* Advisory thresholds by exposure class: max_ac in units of 1e-4, min_cemento in kg.
REQUISITOS_DURABILIDAD ==
  [c \in {"Sin riesgo", "Baja permeabilidad / Corrosion moderada",
          "Corrosion severa / Cloruros", "Sulfatos moderados", "Sulfatos severos",
          "Congelamiento y deshielo"} |->
     CASE c = "Sin riesgo" -> [max_ac |-> 10000, min_cemento |-> 250]
       [] c = "Baja permeabilidad / Corrosion moderada" -> [max_ac |-> 5000, min_cemento |-> 300]
       [] c = "Corrosion severa / Cloruros" -> [max_ac |-> 4000, min_cemento |-> 330]
       [] c = "Sulfatos moderados" -> [max_ac |-> 5000, min_cemento |-> 300]
       [] c = "Sulfatos severos" -> [max_ac |-> 4500, min_cemento |-> 330]
       [] c = "Congelamiento y deshielo" -> [max_ac |-> 4500, min_cemento |-> 300]]

\* Band tolerance by sieve of TAMICES_ASTM, in percent.
TOLERANCIAS_BANDA == <<4, 4, 4, 4, 4, 4, 4, 4, 4, 3, 2, 3>>

\* Number of sieves of TAMICES_MM and TAMICES_ASTM.
NumTamicesMM == Len(TOLERANCIAS_BANDA)

\* The first key k of a table, in ascending order, with k <= v <= next key.
ClaveTramo(tabla, v) ==
  CHOOSE k \in DOMAIN tabla :
    /\ k <= v /\ (\E k2 \in DOMAIN tabla : k2 > k) /\ v <= ClaveSiguiente(tabla, k)
    /\ \A k2 \in DOMAIN tabla : (k2 < k) => ~(v <= ClaveSiguiente(tabla, k2))

\* Air by nominal size, linearly interpolated, plus aire_incorporado * 10 litres.
obtener_aire_ocluido(dn_mm, aire_incorporado) ==
  LET aire_base ==
        IF dn_mm <= 10000 THEN VL * TABLA_AIRE[10000]
        ELSE IF dn_mm >= 50000 THEN VL * TABLA_AIRE[50000]
        ELSE LET d_inf == ClaveTramo(TABLA_AIRE, dn_mm)
                 d_sup == ClaveSiguiente(TABLA_AIRE, d_inf)
             IN VL * TABLA_AIRE[d_inf]
                + MulDivRound(dn_mm - d_inf, VL * (TABLA_AIRE[d_sup] - TABLA_AIRE[d_inf]),
                              d_sup - d_inf)
  IN aire_base + aire_incorporado * VL

\* Lines 470-478: the manual litres; else the percentage times 10 when it is
\* positive; else the table.
AireLt(tmn, aire_porcentaje, manual_aire_litros) ==
  IF manual_aire_litros /= None THEN manual_aire_litros * (VL \div 10)
  ELSE IF aire_porcentaje > 0 THEN aire_porcentaje * VL
  ELSE obtener_aire_ocluido(tmn, 0)

\* A cement choice that raises the cement to the exposure class's minimum.
CementoConMinimo(fd_kgcm2, min_cemento_durabilidad) ==
  Max2(calcular_cemento(fd_kgcm2), min_cemento_durabilidad)

\* Lines 452-455: the cement by strength alone; the class's minimum is not applied.
CementoDeDiseno(fd_kgcm2, min_cemento_durabilidad) == calcular_cemento(fd_kgcm2)

\* Lines 436-438: the thresholds of the class, those of "Sin riesgo" for an
\* unknown class.
RequisitosDe(condicion_exposicion) ==
  IF condicion_exposicion \in DOMAIN REQUISITOS_DURABILIDAD
  THEN REQUISITOS_DURABILIDAD[condicion_exposicion]
  ELSE REQUISITOS_DURABILIDAD["Sin riesgo"]

\* Lines 489-507: the admixtures' volume; the water is left as it is.
VolumenAditivos(cemento, aditivos_config) ==
  SumSeq([k \in 1..Len(aditivos_config) |->
            MulDivRound(cemento * aditivos_config[k].dosis_pct, 1000,
                        aditivos_config[k].densidad_kg_lt)])

\* Volumetric fractions of the aggregates by the Faury split, in input order.
calcular_proporciones_faury(dn_mm, consistencia, c_vol, num_aridos) ==
  LET base == IF dn_mm = 25000 THEN 44 ELSE IF dn_mm = 40000 THEN 48
              ELSE IF dn_mm = 20000 THEN 42 ELSE 43
      i_gruesos == (UNO \div 100)
                     * (base + (IF consistencia = "Seca" THEN 2
                                ELSE IF consistencia = "Fluida" THEN 0 - 3 ELSE 0))
      f == (UNO - i_gruesos) - c_vol
  IN IF num_aridos = 2 THEN <<i_gruesos, f>>
     ELSE <<(i_gruesos \div 100) * 55, (i_gruesos \div 100) * 45, f>>

\* A variant of the test below that never takes the custom proportions.
NuncaPersonalizadas(proporciones_personalizadas, num_aridos) == FALSE

\* Line 540: custom proportions are used when given, one per aggregate.
UsaPersonalizadas(proporciones_personalizadas, num_aridos) ==
  Len(proporciones_personalizadas) > 0 /\ Len(proporciones_personalizadas) = num_aridos

\* Lines 541-562: the aggregates' share 1 - c_vol split as the custom
\* proportions, in input order.
ProporcionesPersonalizadas(proporciones_personalizadas, c_vol) ==
  [i \in 1..Len(proporciones_personalizadas) |->
     MulDivRound(UNO - c_vol, proporciones_personalizadas[i],
                 SumSeq(proporciones_personalizadas))]

\* A variant of the quantities that leaves the compactness out.
CantidadesSinCompacidad(proporciones, compacidad, densidades) ==
  [i \in 1..Min2(Len(proporciones), Len(densidades)) |->
     MulDivRound(MulDivRound(proporciones[i], 1000 * VL, UNO), densidades[i], 1000)]

\* prop * compacidad * densidad for each key of proporciones that has a density,
\* in units of 1e-4 kg.
calcular_cantidades_kg(proporciones, compacidad, densidades) ==
  [i \in 1..Min2(Len(proporciones), Len(densidades)) |->
     MulDivRound(MulDivRound(proporciones[i], compacidad, UNO), densidades[i], 1000)]

\* Each quantity over the total; zeros when the total is 0.
calcular_proporciones_peso(cantidades) ==
  LET total == SumSeq(cantidades)
  IN [i \in 1..Len(cantidades) |->
        IF total = 0 THEN 0 ELSE MulDivRound(cantidades[i], UNO, total)]

\* The blend on the 12 sieves: the sum of weight fraction times percent passing.
calcular_granulometria_mezcla(proporciones_peso, granulometrias) ==
  [k \in 1..NumTamicesMM |->
     SumSeq([i \in 1..Len(proporciones_peso) |->
               MulDivRound(proporciones_peso[i], granulometrias[i][k], 100)])]

\* (max(0, blend - tol), min(100, blend + tol)) on each sieve.
calcular_banda_trabajo(mezcla) ==
  [k \in 1..Len(TOLERANCIAS_BANDA) |->
     <<Max2(0, mezcla[k] - TOLERANCIAS_BANDA[k] * PCT),
       Min2(100 * PCT, mezcla[k] + TOLERANCIAS_BANDA[k] * PCT)>>]

\* The key disenar_mezcla_faury files the i-th aggregate under (0-based in the code).
ClaveInterna(i, num_aridos) ==
  IF num_aridos = 2 THEN (IF i = 1 THEN "grueso" ELSE "fino")
  ELSE IF i = 1 THEN "grueso_1" ELSE IF i = 2 THEN "grueso_2" ELSE "fino"

\* The key a value is returned under: the aggregate's name for 2 or 3
\* aggregates, else the internal key.
ClaveFinal(i, aridos) ==
  IF Len(aridos) \in {2, 3} THEN aridos[i].nombre ELSE ClaveInterna(i, Len(aridos))

\* A result dictionary rebuilt under the final keys, each value divided by den
\* and rounded; a later entry overwrites an earlier one with the same key.
RenombrarClaves(valores, aridos, den) ==
  [clave \in {ClaveFinal(i, aridos) : i \in 1..Len(valores)} |->
     LET ultimo == CHOOSE i \in 1..Len(valores) :
                     /\ ClaveFinal(i, aridos) = clave
                     /\ \A j \in 1..Len(valores) : ClaveFinal(j, aridos) = clave => j <= i
     IN MulDivRound(valores[ultimo], 1, den)]

\* round(num/den) for num >= 0 as the floating-point build computes it: the
\* nearest integer, and either neighbour when the exact value is a tie (the
\* float nearest to the exact value decides which, e.g. round(0.4565, 3)).
Redondeos(num, den) ==
  LET q == num \div den
      r == num % den
  IN IF 2 * r < den THEN {q} ELSE IF 2 * r > den THEN {q + 1} ELSE {q, q + 1}

\* No design has been computed.
DisenoNinguno ==
  [hecho |-> FALSE, excepcion |-> FALSE, fd_kgcm2 |-> 0, cemento |-> 0, razon |-> 0,
   agua_amasado |-> 0, ac_ratio |-> 0, vol_agua_lt |-> 0, aire_lt |-> 0,
   volumen_aditivos_lt |-> 0, vol_cemento_lt |-> 0, compacidad |-> 0, c_vol |-> 0,
   proporciones_vol |-> <<>>, cantidades |-> <<>>, proporciones_peso |-> <<>>,
   mezcla |-> <<>>, banda |-> <<>>, granulometria_mezcla |-> <<>>,
   banda_trabajo |-> <<>>, cantidades_kg_m3 |-> <<>>, proporciones_peso_final |-> <<>>,
   referencias |-> [min_cemento_norma |-> 0, max_ac_norma |-> 0,
                    cumple_cemento |-> FALSE, cumple_ac |-> FALSE]]

\* The call raised (a division by zero).
DisenoExcepcion == [DisenoNinguno EXCEPT !.excepcion = TRUE]

\* disenar_mezcla_faury: the set of results the call can return.  The record
\* holds the keys of the result dictionary the properties read:
\* resistencia.fd_kgcm2, cemento.cantidad, agua_cemento.razon (3 decimals),
\* agua_cemento.agua_amasado (1 decimal), granulometria_mezcla and
\* banda_trabajo (1 decimal), referencias_durabilidad; and the locals they are
\* rounded from.
disenar_mezcla_faury(resistencia_fc, desviacion_std, fraccion_def, consistencia, tmn, densidad_cemento, aridos, aire_porcentaje, condicion_exposicion, aditivos_config, proporciones_personalizadas, manual_ac, manual_aire_litros) ==
  LET req_durabilidad == RequisitosDe(condicion_exposicion)
      fd_kgcm2 == calcular_resistencia_media(resistencia_fc, desviacion_std,
                                             fraccion_def).fd_kgcm2
      cemento == CementoDeDiseno(fd_kgcm2, req_durabilidad.min_cemento)
      ac_ratio == RazonAC(manual_ac, fd_kgcm2)
      agua_amasado == cemento * ac_ratio
      aire_lt == AireLt(tmn, aire_porcentaje, manual_aire_litros)
      division_por_cero_aditivo ==
        \E k \in 1..Len(aditivos_config) : aditivos_config[k].densidad_kg_lt = 0
      volumen_aditivos_lt == VolumenAditivos(cemento, aditivos_config)
      vol_cemento_lt == MulDivRound(cemento * 1000, VL, densidad_cemento)
      vol_aridos_aprente_lt ==
        1000 * VL - vol_cemento_lt - agua_amasado - aire_lt - volumen_aditivos_lt
      compacidad == vol_cemento_lt + vol_aridos_aprente_lt
      c_vol == MulDivRound(vol_cemento_lt, UNO, compacidad)
      num_aridos == Len(aridos)
      personalizadas == UsaPersonalizadas(proporciones_personalizadas, num_aridos)
      proporciones_vol ==
        IF personalizadas THEN ProporcionesPersonalizadas(proporciones_personalizadas, c_vol)
        ELSE calcular_proporciones_faury(tmn, consistencia, c_vol, num_aridos)
      densidades == [i \in 1..num_aridos |-> aridos[i].DRS]
      granulometrias == [i \in 1..num_aridos |-> aridos[i].granulometria]
      cantidades == calcular_cantidades_kg(proporciones_vol, compacidad, densidades)
      proporciones_peso == calcular_proporciones_peso(cantidades)
      mezcla == calcular_granulometria_mezcla(proporciones_peso, granulometrias)
      banda == calcular_banda_trabajo(mezcla)
  IN IF \/ division_por_cero_aditivo
        \/ densidad_cemento = 0
        \/ compacidad = 0
        \/ (personalizadas /\ SumSeq(proporciones_personalizadas) = 0)
     THEN {DisenoExcepcion}
     ELSE {[hecho |-> TRUE, excepcion |-> FALSE, fd_kgcm2 |-> fd_kgcm2,
            cemento |-> cemento, razon |-> rz, agua_amasado |-> ag,
            ac_ratio |-> ac_ratio, vol_agua_lt |-> agua_amasado, aire_lt |-> aire_lt,
            volumen_aditivos_lt |-> volumen_aditivos_lt,
            vol_cemento_lt |-> vol_cemento_lt, compacidad |-> compacidad,
            c_vol |-> c_vol, proporciones_vol |-> proporciones_vol,
            cantidades |-> cantidades, proporciones_peso |-> proporciones_peso,
            mezcla |-> mezcla, banda |-> banda,
            granulometria_mezcla |->
              [k \in 1..Len(mezcla) |-> MulDivRound(mezcla[k], 1, PCT \div 10)],
            banda_trabajo |->
              [k \in 1..Len(banda) |->
                 <<MulDivRound(banda[k][1], 1, PCT \div 10),
                   MulDivRound(banda[k][2], 1, PCT \div 10)>>],
            cantidades_kg_m3 |-> RenombrarClaves(cantidades, aridos, 1000),
            proporciones_peso_final |-> RenombrarClaves(proporciones_peso, aridos, VL),
            referencias |->
              [min_cemento_norma |-> req_durabilidad.min_cemento,
               max_ac_norma |-> req_durabilidad.max_ac,
               cumple_cemento |-> cemento >= req_durabilidad.min_cemento,
               cumple_ac |-> ac_ratio <= req_durabilidad.max_ac]] :
             rz \in Redondeos(ac_ratio, 10), ag \in Redondeos(agua_amasado, 1000)}

\* ------------------------------------------------------------------------
\* Inputs
\* ------------------------------------------------------------------------

\* Largest num_agregados argument a caller passes.
MaxNumAgregados == 3

\* Gradations on the 13 default sieves, whole percent passing.
GRUESO == <<100, 100, 100, 97, 76, 34, 21, 2, 1, 0, 0, 0, 0>>

INTERMEDIO == <<100, 100, 100, 100, 100, 95, 40, 10, 3, 1, 0, 0, 0>>

FINO == <<100, 100, 100, 100, 100, 100, 100, 94, 74, 53, 37, 21, 8>>

\* A gradation as the sidebar enters it: 12 values (modules/utils_ui.py).
GRUESO_12 == <<100, 100, 97, 76, 34, 21, 2, 1, 0, 0, 0, 0>>

Listas ==
  {<<>>, <<GRUESO, FINO>>, <<GRUESO, INTERMEDIO, FINO>>, <<FINO, FINO>>,
   <<FINO, FINO, FINO>>, <<GRUESO_12, FINO>>}

TMNs == {25000}

\* num_agregados: left at its default (2) or given.
NumAgregadosArgs ==
  {[dado |-> FALSE, valor |-> 2]}
    \cup {[dado |-> TRUE, valor |-> k] : k \in 0..MaxNumAgregados}

\* proporciones_iniciales: None, or positive weights.
ProporcionesIniciales == {<<>>, <<1, 2>>}

\* densidades: None, or one density per aggregate (kg/m3).
Densidades == {<<>>, <<2700, 2650, 2600>>}

\* Weights in tenths.
Pesos ==
  {[haystack |-> 3, tarantula |-> 3, shilstone |-> 2],
   [haystack |-> 0, tarantula |-> 0, shilstone |-> 0]}

\* Values a component of the solver's x takes (proportion units):
\* 0, 33.33.., 40, 50, 60, 66.66.. and 100 percent.
SolverVals == {0, 10000, 12000, 15000, 18000, 20000, 30000}

\* The points the solver may return: within the bounds [0, 100] and on the
\* equality constraint sum(x) = 100.
SolverX(n) == {x \in [1..n -> SolverVals] : restriccion_suma_100(x) = 0}

SolverResultados(n) ==
  {[raises |-> TRUE, success |-> FALSE, x |-> <<>>, mensaje |-> "ValueError"]}
    \cup {[raises |-> FALSE, success |-> b, x |-> x,
           mensaje |-> IF b THEN "Optimization terminated successfully"
                       ELSE "Iteration limit reached"] :
            b \in BOOLEAN, x \in SolverX(n)}

\* restricciones_haystack and restricciones_tarantula: both None, or a custom
\* band for sieve #16 (index 8) and a custom band for sieve #8 (index 7).
RestriccionesPersonalizadas ==
  {[haystack |-> <<>>, tarantula |-> <<>>],
   [haystack |-> [i \in {8} |-> <<40, 90>>], tarantula |-> [i \in {7} |-> <<15, 0>>]]}

\* limites_proporciones: None, or (min, max) per aggregate, in percent.
LimitesProporciones ==
  {<<>>, << <<40, 100>>, <<0, 60>> >>, << <<20, 100>>, <<20, 100>>, <<20, 100>> >>}

\* resistencia_fc in MPa (the sidebar allows 15 to 80).
ResistenciasFc == {15, 25, 30, 45, 80}

\* desviacion_std in tenths of a MPa.
DesviacionesStd == {0, 35, 50}

\* fraccion_def in percent.
FraccionesDef == {5, 10, 12, 15, 20}

\* manual_ac: None, zero, or a ratio in units of 1e-4 (the sidebar allows 0.20
\* to 1.50 in steps of 0.01; other callers may pass any float).
ManualesAC == {None, 0, 2000, 4300, 4565, 5000, 15000}

\* Consistency classes the selector offers (config.CONSISTENCIAS).
Consistencias == {"Seca", "Plastica", "Blanda", "Fluida"}

\* Nominal sizes of a design, micrometres: options of the selector, and one
\* between two keys of the air table.
TMNsDiseno == {10000, 15000, 20000, 25000, 40000}

DensidadesCemento == {3000, 3140}

\* Gradations on the 12 sieves of TAMICES_MM, whole percent passing.
INTERMEDIO_12 == <<100, 100, 100, 100, 95, 40, 10, 3, 1, 0, 0, 0>>

FINO_12 == <<100, 100, 100, 100, 100, 100, 94, 74, 53, 37, 21, 8>>

\* A gradation nobody validated: values above 100.
SIN_VALIDAR_12 == <<105, 105, 100, 76, 34, 21, 2, 1, 0, 0, 0, 0>>

\* One aggregate of the list: its name, dry density (kg/m3) and gradation.
Arido(nombre, DRS, granulometria) ==
  [nombre |-> nombre, DRS |-> DRS, granulometria |-> granulometria]

\* The aggregates of a design: two or three, coarse to fine.
AridosDiseno ==
  {<<Arido("Grava", 2700, GRUESO_12), Arido("Arena", 2600, FINO_12)>>,
   <<Arido("Grava", 2700, GRUESO_12), Arido("Gravilla", 2650, INTERMEDIO_12),
     Arido("Arena", 2600, FINO_12)>>,
   <<Arido("Grava", 2700, SIN_VALIDAR_12), Arido("Arena", 2600, FINO_12)>>}

\* aire_porcentaje, tenths of a percent.
AiresPorcentaje == {0, 20, 45}

\* manual_aire_litros: None, or tenths of a litre.
ManualesAireLitros == {None, 0, 200, 355}

\* The classes of the selector and one the table does not have.
CondicionesExposicion == DOMAIN REQUISITOS_DURABILIDAD \cup {"Otra"}

\* aditivos_config: none, a superplasticizer at 1 % of the cement, or two admixtures.
AditivosConfigs ==
  {<<>>,
   <<[dosis_pct |-> 10, densidad_kg_lt |-> 120]>>,
   <<[dosis_pct |-> 10, densidad_kg_lt |-> 120], [dosis_pct |-> 5, densidad_kg_lt |-> 105]>>}

\* proporciones_personalizadas: None, or weights as the optimizer returns them.
ProporcionesPersonalizadasDiseno ==
  {<<>>, <<30, 70>>, <<60, 40>>, <<0, 0>>, <<20, 30, 50>>, <<1, 1, 1>>}

\* The arguments of a design at the defaults of config.DEFAULTS.
EntradaBase ==
  [resistencia_fc |-> 30, desviacion_std |-> 40, fraccion_def |-> 10,
   consistencia |-> "Blanda", tmn |-> 25000, densidad_cemento |-> 3140,
   aridos |-> <<Arido("Grava", 2700, GRUESO_12), Arido("Arena", 2600, FINO_12)>>,
   aire_porcentaje |-> 0, condicion_exposicion |-> "Sin riesgo",
   aditivos_config |-> <<>>, proporciones_personalizadas |-> <<>>,
   manual_ac |-> None, manual_aire_litros |-> None]

\* Aggregate lists that differ in the names: distinct names, the names of the
\* internal keys, and the same name twice.
AridosConNombres ==
  {<<Arido("Grava", 2700, GRUESO_12), Arido("Arena", 2600, FINO_12)>>,
   <<Arido("fino", 2700, GRUESO_12), Arido("grueso", 2600, FINO_12)>>,
   <<Arido("cemento", 2700, GRUESO_12), Arido("Arena", 2600, FINO_12)>>,
   <<Arido("Arena", 2700, GRUESO_12), Arido("Arena", 2600, FINO_12)>>,
   <<Arido("Grava", 2700, GRUESO_12), Arido("Grava", 2650, INTERMEDIO_12),
     Arido("Arena", 2600, FINO_12)>>,
   <<Arido("grueso_2", 2700, GRUESO_12), Arido("grueso_1", 2650, INTERMEDIO_12),
     Arido("Arena", 2600, FINO_12)>>}

\* The designs a caller asks for: the defaults, varied in the strength and
\* ratio arguments, in the air arguments, in the exposure class, in the
\* arguments the volumes depend on, in arguments outside their ranges (a
\* nominal size or cement density that is not positive, no aggregates), and
\* in the names of the aggregates.
EntradasDiseno ==
  {[EntradaBase EXCEPT !.resistencia_fc = fc, !.desviacion_std = sd,
                       !.fraccion_def = fdef, !.manual_ac = mac] :
     fc \in ResistenciasFc, sd \in DesviacionesStd, fdef \in FraccionesDef,
     mac \in ManualesAC}
  \cup
  {[EntradaBase EXCEPT !.tmn = tmn, !.aire_porcentaje = ap,
                       !.manual_aire_litros = mal, !.densidad_cemento = dc] :
     tmn \in TMNsDiseno, ap \in AiresPorcentaje, mal \in ManualesAireLitros,
     dc \in DensidadesCemento}
  \cup
  {[EntradaBase EXCEPT !.condicion_exposicion = ce, !.resistencia_fc = fc,
                       !.manual_ac = mac] :
     ce \in CondicionesExposicion, fc \in ResistenciasFc, mac \in {None, 4300, 5000}}
  \cup
  {[EntradaBase EXCEPT !.aridos = ar, !.proporciones_personalizadas = pp,
                       !.consistencia = co, !.tmn = tmn, !.aditivos_config = ad,
                       !.resistencia_fc = fc, !.manual_ac = mac] :
     ar \in AridosDiseno, pp \in ProporcionesPersonalizadasDiseno,
     co \in Consistencias, tmn \in {20000, 25000}, ad \in AditivosConfigs,
     fc \in {30, 80}, mac \in {None, 6500}}
  \cup
  {[EntradaBase EXCEPT !.tmn = tmn, !.densidad_cemento = dc, !.aridos = ar] :
     tmn \in {0 - 25000, 0, 25000}, dc \in {0 - 3140, 0, 3140},
     ar \in {<<>>, EntradaBase.aridos}}
  \cup
  {[EntradaBase EXCEPT !.aridos = ar, !.proporciones_personalizadas = pp] :
     ar \in AridosConNombres, pp \in {<<>>, <<30, 70>>, <<20, 30, 50>>}}

\* ------------------------------------------------------------------------
\* State
\* ------------------------------------------------------------------------

VARIABLES
  HAYSTACK_LIMITS,    \* the module-level table of optimization.py
  TARANTULA_LIMITS,   \* the module-level table of optimization.py
  llamada,            \* the last call: operation and arguments
  solver,             \* what minimize did in the last call
  res,                \* what the last optimizer call returned
  diseno,             \* what the last disenar_mezcla_faury call returned
  prueba              \* the last direct call of a helper: arguments and result

vars == <<HAYSTACK_LIMITS, TARANTULA_LIMITS, llamada, solver, res, diseno, prueba>>

\* A direct call of one function: its arguments, what it returned, and whether
\* it raised instead of returning.
PruebaNinguna == [entrada |-> <<>>, salida |-> <<>>, excepcion |-> FALSE]

LlamadaNinguna ==
  [op |-> "ninguna", granulometrias |-> <<>>, tmn |-> 0, num_dado |-> FALSE,
   num_agregados |-> 0, proporciones_iniciales |-> <<>>, densidades |-> <<>>,
   pesos |-> PESOS_FUNCION_OBJETIVO, pesos_dados |-> FALSE, limites |-> <<>>,
   resistencia_fc |-> 0, desviacion_std |-> 0, fraccion_def |-> 0,
   manual_ac |-> None, consistencia |-> "", densidad_cemento |-> 0, aridos |-> <<>>,
   aire_porcentaje |-> 0, condicion_exposicion |-> "", aditivos_config |-> <<>>,
   proporciones_personalizadas |-> <<>>, manual_aire_litros |-> None]

Init ==
  /\ HAYSTACK_LIMITS = HAYSTACK_LIMITS_INICIAL
  /\ TARANTULA_LIMITS = TARANTULA_LIMITS_INICIAL
  /\ llamada = LlamadaNinguna
  /\ solver = SinSolver
  /\ res = ResNinguno
  /\ diseno = DisenoNinguno
  /\ prueba = PruebaNinguna

\* No call is in progress and no result is held.
EnReposo == llamada.op = "ninguna"

\* A caller (app.py line 1178, or any other) calls optimizar_agregados.
OptimizarAgregados ==
  /\ EnReposo
  /\  \E gs \in Listas, tmn \in TMNs, na \in NumAgregadosArgs,
     pini \in ProporcionesIniciales, dens \in Densidades, w \in Pesos :
    \E sv \in (IF Min2(Len(gs), na.valor) = 0 THEN {SinSolver}
               ELSE SolverResultados(Min2(Len(gs), na.valor))) :
      /\ res' = optimizar_agregados(gs, tmn, na.valor, pini, dens, w, sv,
                                    HAYSTACK_LIMITS, TARANTULA_LIMITS)
      /\ solver' = sv
      /\ llamada' = [LlamadaNinguna EXCEPT
                       !.op = "optimizar_agregados", !.granulometrias = gs,
                       !.tmn = tmn, !.num_dado = na.dado, !.num_agregados = na.valor,
                       !.proporciones_iniciales = pini, !.densidades = dens,
                       !.pesos = w, !.pesos_dados = TRUE]
      /\ UNCHANGED <<HAYSTACK_LIMITS, TARANTULA_LIMITS, diseno, prueba>>

\* A caller calls optimizar_con_restricciones_personalizadas.  The inner call
\* runs with optimizar_agregados's default weights, PESOS_OPTIMIZACION, which
\* optimization.py imports at line 295 and no source file defines: w ranges
\* over the weights they may be.
OptimizarConRestricciones ==
  /\ EnReposo
  /\  \E gs \in Listas, tmn \in TMNs, rp \in RestriccionesPersonalizadas,
     lim \in LimitesProporciones, w \in Pesos :
    \E sv \in (IF Len(gs) = 0 THEN {SinSolver} ELSE SolverResultados(Len(gs))) :
      LET r == optimizar_con_restricciones_personalizadas(
                 gs, tmn, rp.haystack, rp.tarantula, lim, w, sv,
                 HAYSTACK_LIMITS, TARANTULA_LIMITS)
      IN /\ HAYSTACK_LIMITS' = r.hay
         /\ TARANTULA_LIMITS' = r.tar
         /\ res' = r.res
         /\ solver' = sv
         /\ llamada' = [LlamadaNinguna EXCEPT
                          !.op = "optimizar_con_restricciones_personalizadas",
                          !.granulometrias = gs, !.tmn = tmn, !.num_dado = TRUE,
                          !.num_agregados = Len(gs), !.pesos = w, !.limites = lim]
         /\ UNCHANGED <<diseno, prueba>>

\* The design page runs the optimizer with the user's minimum percentages.
PaginaEjecutarOptimizacion ==
  /\ EnReposo
  /\  \E gs \in Listas \ {<<>>}, tmn \in TMNs, dens \in Densidades, w \in Pesos,
     lim \in LimitesProporciones :
      /\ Len(lim) = Len(gs)
      /\ res' = PaginaOptimizar(gs, tmn, dens, [j \in 1..Len(lim) |-> lim[j][1]], w)
      /\ solver' = SinSolver
      /\ llamada' = [LlamadaNinguna EXCEPT
                       !.op = "pagina_optimizar", !.granulometrias = gs, !.tmn = tmn,
                       !.densidades = dens, !.pesos = w, !.pesos_dados = TRUE,
                       !.limites = lim]
      /\ UNCHANGED <<HAYSTACK_LIMITS, TARANTULA_LIMITS, diseno, prueba>>

\* The caller is done with the result; the module-level tables stay as they are.
Retornar ==
  /\ ~EnReposo
  /\ llamada' = LlamadaNinguna
  /\ solver' = SinSolver
  /\ res' = ResNinguno
  /\ diseno' = DisenoNinguno
  /\ prueba' = PruebaNinguna
  /\ UNCHANGED <<HAYSTACK_LIMITS, TARANTULA_LIMITS>>

\* A caller (pages/1_Diseno.py line 73, tests/test_magallanes.py) runs a design.
DisenarMezclaFaury ==
  /\ EnReposo
  /\ \E e \in EntradasDiseno :
      /\ diseno' \in disenar_mezcla_faury(
                       e.resistencia_fc, e.desviacion_std, e.fraccion_def,
                       e.consistencia, e.tmn, e.densidad_cemento, e.aridos,
                       e.aire_porcentaje, e.condicion_exposicion, e.aditivos_config,
                       e.proporciones_personalizadas, e.manual_ac, e.manual_aire_litros)
      /\ llamada' = [LlamadaNinguna EXCEPT
                       !.op = "disenar_mezcla_faury",
                       !.resistencia_fc = e.resistencia_fc,
                       !.desviacion_std = e.desviacion_std,
                       !.fraccion_def = e.fraccion_def, !.manual_ac = e.manual_ac,
                       !.consistencia = e.consistencia, !.tmn = e.tmn,
                       !.densidad_cemento = e.densidad_cemento, !.aridos = e.aridos,
                       !.aire_porcentaje = e.aire_porcentaje,
                       !.condicion_exposicion = e.condicion_exposicion,
                       !.aditivos_config = e.aditivos_config,
                       !.proporciones_personalizadas = e.proporciones_personalizadas,
                       !.manual_aire_litros = e.manual_aire_litros]
      /\ UNCHANGED <<HAYSTACK_LIMITS, TARANTULA_LIMITS, solver, res, prueba>>

Next ==
  \/ OptimizarAgregados
  \/ OptimizarConRestricciones
  \/ PaginaEjecutarOptimizacion
  \/ DisenarMezclaFaury
  \/ Retornar

Spec == Init /\ [][Next]_vars

\* The design engine on its own.
NextDiseno ==
  \/ DisenarMezclaFaury
  \/ Retornar

SpecDiseno == Init /\ [][NextDiseno]_vars

\* ------------------------------------------------------------------------
\* Direct calls of the helpers (tests/test_dosage.py, pages, app.py)
\* ------------------------------------------------------------------------

\* ---- modules/shilstone.py ----

\* The share of the material above #8 that passes 3/8 in, I / (Q + I) * 100: the
\* complement of the coarseness factor.
CFComplemento(pasa_3_8, pasa_8) ==
  LET Q_ret == 100 * 100 - pasa_3_8
      I_ret == pasa_3_8 - pasa_8
  IN IF Q_ret + I_ret <= 0 THEN 0
     ELSE IF I_ret >= 0 THEN RoundHalfEven(I_ret * 100 * 100, Q_ret + I_ret)
     ELSE 0 - RoundHalfEven((0 - I_ret) * 100 * 100, Q_ret + I_ret)

\* Coarseness factor from the percent passing 3/8 in and #8 (all in hundredths):
\* Q / (Q + I) * 100 with Q = 100 - pasa_3_8 and I = pasa_3_8 - pasa_8, rounded to
\* 2 decimals, and 0 when Q + I <= 0.
calcular_CF(pasa_3_8, pasa_8) ==
  LET Q_ret == 100 * 100 - pasa_3_8
      I_ret == pasa_3_8 - pasa_8
  IN IF Q_ret + I_ret <= 0 THEN 0
     ELSE IF Q_ret >= 0 THEN RoundHalfEven(Q_ret * 100 * 100, Q_ret + I_ret)
     ELSE 0 - RoundHalfEven((0 - Q_ret) * 100 * 100, Q_ret + I_ret)

\* The classification without the two slanted lines: the box CF in [45, 75],
\* Wadj in [27, 45] alone decides.
ZonaSoloCaja(CF, Wadj) ==
  IF (4500 <= CF /\ CF <= 7500) /\ (2700 <= Wadj /\ Wadj <= 4500)
  THEN [zona |-> "Zona I - Optima", calidad |-> "Optima",
        recomendaciones |-> <<"La mezcla se encuentra en una zona aceptable">>]
  ELSE [zona |-> IF CF > 7500 THEN "Zona Rocky" ELSE "Zona Arenosa",
        calidad |-> "Deficiente",
        recomendaciones |-> <<"Aumentar contenido de finos (arena)">>]

\* Zone of the point (CF, Wadj), both in hundredths. Inside the box the two
\* lines decide between Zona I and the transition zone; outside it the CF test
\* runs first and the Wadj test afterwards, overwriting the zone and adding its
\* recommendations.
evaluar_zona_shilstone(CF, Wadj) ==
  LET en_zona_optima == (4500 <= CF /\ CF <= 7500) /\ (2700 <= Wadj /\ Wadj <= 4500)
      \* Wadj <= -0.138 * CF + 49.8 and Wadj >= -0.1 * CF + 37
      entre_lineas == /\ 1000 * Wadj <= 4980000 - 138 * CF
                      /\ 10 * Wadj >= 37000 - CF
      zona_cf == IF CF > 7500 THEN "Zona Rocky"
                 ELSE IF CF < 4500 THEN "Zona Arenosa" ELSE ""
      rec_cf == IF CF > 7500
                THEN <<"Aumentar contenido de finos (arena)",
                       "Considerar reducir tamano maximo del agregado">>
                ELSE IF CF < 4500
                THEN <<"Aumentar contenido de agregado grueso",
                       "Reducir contenido de finos">>
                ELSE <<>>
      zona_w == IF Wadj > 4500 THEN "Zona Sobredisenada"
                ELSE IF Wadj < 2700 THEN "Zona de Baja Trabajabilidad" ELSE zona_cf
      rec_w == IF Wadj > 4500
               THEN <<"Reducir porcentaje de material que pasa #8">>
               ELSE IF Wadj < 2700
               THEN <<"Aumentar contenido de arena fina",
                      "Verificar granulometria del agregado fino">>
               ELSE <<>>
      recomendaciones == IF en_zona_optima THEN <<>> ELSE rec_cf \o rec_w
  IN [zona |-> IF en_zona_optima
               THEN (IF entre_lineas THEN "Zona I - Optima"
                     ELSE "Zona de transicion")
               ELSE zona_w,
      calidad |-> IF en_zona_optima
                  THEN (IF entre_lineas THEN "Optima" ELSE "Aceptable")
                  ELSE IF zona_w = "" THEN "" ELSE "Deficiente",
      recomendaciones |-> IF recomendaciones = <<>>
                          THEN <<"La mezcla se encuentra en una zona aceptable">>
                          ELSE recomendaciones]

\* Nominal sizes in micrometres: the options of the selector, the sieves'
\* own sizes, one between the two finest sieves, one below the finest and one
\* above the coarsest.
TMNsCurva == {0 - 25000, 0, 50, 75, 100, 150, 9500, 10000, 12500, 20000, 25000, 40000, 50000, 75000}

\* Percent passing values (whole percent) the curves below are built from.
ValoresPasa == {0, 30, 65, 100}

\* Passing curves of up to three sieves in q units, monotone or not: the code
\* checks neither.
CurvasPasa ==
  {<<>>} \cup {<<a * QPct>> : a \in ValoresPasa}
    \cup {<<a * QPct, b * QPct>> : a \in ValoresPasa, b \in ValoresPasa}
    \cup {<<a * QPct, b * QPct, c * QPct>> :
            a \in ValoresPasa, b \in ValoresPasa, c \in ValoresPasa}

\* calcular_resistencia_media(fc, s, fraccion): salida is <<t, fd_mpa, fd_kgcm2>>.
CalcularResistenciaMedia ==
  /\ EnReposo
  /\ \E fc \in ResistenciasFc, s \in DesviacionesStd, fdef \in FraccionesDef :
       LET r == calcular_resistencia_media(fc, s, fdef)
       IN /\ prueba' = [entrada |-> <<fc, s, fdef>>,
                        salida |-> <<obtener_coeficiente_t(fdef), r.fd_mpa, r.fd_kgcm2>>,
                        excepcion |-> FALSE]
          /\ llamada' = [LlamadaNinguna EXCEPT !.op = "calcular_resistencia_media"]
  /\ UNCHANGED <<HAYSTACK_LIMITS, TARANTULA_LIMITS, solver, res, diseno>>

\* generar_curva_ideal_power45(tmn) with the default sieves.
GenerarCurvaIdealPower45 ==
  /\ EnReposo
  /\ \E tmn \in TMNsCurva :
       /\ prueba' = [entrada |-> <<tmn>>, salida |-> generar_curva_ideal_power45(tmn),
                    excepcion |-> FALSE]
       /\ llamada' = [LlamadaNinguna EXCEPT !.op = "generar_curva_ideal_power45"]
  /\ UNCHANGED <<HAYSTACK_LIMITS, TARANTULA_LIMITS, solver, res, diseno>>

\* calcular_retenido(pasa).
CalcularRetenido ==
  /\ EnReposo
  /\ \E pasa \in CurvasPasa :
       /\ prueba' = [entrada |-> pasa, salida |-> calcular_retenido(pasa),
                    excepcion |-> FALSE]
       /\ llamada' = [LlamadaNinguna EXCEPT !.op = "calcular_retenido"]
  /\ UNCHANGED <<HAYSTACK_LIMITS, TARANTULA_LIMITS, solver, res, diseno>>

\* Coarseness factors and adjusted workability factors (hundredths) the zone
\* classifier is called with: both sides of every box edge and of both lines.
ValoresCF == {0, 3000, 4499, 4500, 6000, 7500, 7501, 9000, 10000}

ValoresWadj == {2000, 2699, 2700, 3100, 3500, 4100, 4200, 4500, 4501, 5000}

\* Percent passing (hundredths) calcular_CF is called with, in order or not.
ValoresPasaCF == {0, 1500, 3000, 5000, 6667, 8000, 9999, 10000}

\* evaluar_zona_shilstone(CF, Wadj).
EvaluarZonaShilstone ==
  /\ EnReposo
  /\ \E CF \in ValoresCF, Wadj \in ValoresWadj :
       /\ prueba' = [entrada |-> <<CF, Wadj>>, salida |-> evaluar_zona_shilstone(CF, Wadj),
                    excepcion |-> FALSE]
       /\ llamada' = [LlamadaNinguna EXCEPT !.op = "evaluar_zona_shilstone"]
  /\ UNCHANGED <<HAYSTACK_LIMITS, TARANTULA_LIMITS, solver, res, diseno>>

\* calcular_CF(pasa_3_8, pasa_8).
CalcularCF ==
  /\ EnReposo
  /\ \E pasa_3_8 \in ValoresPasaCF, pasa_8 \in ValoresPasaCF :
       /\ prueba' = [entrada |-> <<pasa_3_8, pasa_8>>,
                    salida |-> <<calcular_CF(pasa_3_8, pasa_8)>>, excepcion |-> FALSE]
       /\ llamada' = [LlamadaNinguna EXCEPT !.op = "calcular_CF"]
  /\ UNCHANGED <<HAYSTACK_LIMITS, TARANTULA_LIMITS, solver, res, diseno>>

\* Blends (q units) calcular_factores_shilstone is called with on its own: seven
\* sieves with the given values at positions 4 and 6, and two shorter lists.
MezclasFactores ==
  {<<>>, <<100 * QPct, 50 * QPct>>}
    \cup {<<100 * QPct, 100 * QPct, 100 * QPct, 100 * QPct, a * Q, b * Q, b * Q>> :
            a \in ValoresPasaCF, b \in ValoresPasaCF}

\* calcular_factores_shilstone(mezcla_pct): salida is <<cf, wf>>.
CalcularFactoresShilstone ==
  /\ EnReposo
  /\ \E mezcla_pct \in MezclasFactores :
       LET f == calcular_factores_shilstone(mezcla_pct)
       IN /\ prueba' = [entrada |-> mezcla_pct, salida |-> <<f.cf, f.wf>>,
                        excepcion |-> FALSE]
          /\ llamada' = [LlamadaNinguna EXCEPT !.op = "calcular_factores_shilstone"]
  /\ UNCHANGED <<HAYSTACK_LIMITS, TARANTULA_LIMITS, solver, res, diseno>>

\* Proportions (percent, or weights on another scale) and gradations the two
\* blend functions are called with on their own, one proportion per gradation.
EntradasMezcla ==
  {[proporciones |-> p, granulometrias |-> gs] :
     p \in {<<30, 70>>, <<3, 7>>, <<60, 40>>, <<50, 50>>, <<100, 0>>, <<0, 0>>},
     gs \in {<<GRUESO, FINO>>, <<FINO, FINO>>, <<GRUESO, INTERMEDIO>>}}
    \cup {[proporciones |-> p, granulometrias |-> <<GRUESO, INTERMEDIO, FINO>>] :
            p \in {<<20, 30, 50>>, <<2, 3, 5>>, <<0, 0, 0>>}}

\* calcular_mezcla_granulometrica(proporciones, granulometrias).
CalcularMezclaGranulometrica ==
  /\ EnReposo
  /\ \E e \in EntradasMezcla :
       /\ prueba' = [entrada |-> e,
                    salida |-> calcular_mezcla_granulometrica(e.proporciones,
                                                              e.granulometrias),
                    excepcion |-> FALSE]
       /\ llamada' = [LlamadaNinguna EXCEPT !.op = "calcular_mezcla_granulometrica"]
  /\ UNCHANGED <<HAYSTACK_LIMITS, TARANTULA_LIMITS, solver, res, diseno>>

\* calcular_mezcla_volumetrica(proporciones, granulometrias), densidades None.
CalcularMezclaVolumetrica ==
  /\ EnReposo
  /\ \E e \in EntradasMezcla :
       /\ prueba' = [entrada |-> e,
                    salida |-> calcular_mezcla_volumetrica(
                                 [j \in 1..Len(e.proporciones) |-> e.proporciones[j] * Q],
                                 e.granulometrias, <<>>),
                    excepcion |-> FALSE]
       /\ llamada' = [LlamadaNinguna EXCEPT !.op = "calcular_mezcla_volumetrica"]
  /\ UNCHANGED <<HAYSTACK_LIMITS, TARANTULA_LIMITS, solver, res, diseno>>

\* Blends (whole percent passing the 13 sieves, or fewer) the compliance report
\* is asked for: a fine and a coarse aggregate, one within the Haystack bands,
\* one within the Tarantula bands, one with no material between 19 mm and
\* 1.18 mm, one within neither fine-fraction limit, and a short list.
MezclasCumplimiento ==
  {FINO, GRUESO,
   <<100, 96, 90, 85, 80, 75, 68, 60, 52, 40, 25, 8, 3>>,
   <<100, 90, 80, 70, 60, 50, 40, 32, 26, 16, 8, 4, 2>>,
   <<100, 70, 40, 40, 40, 40, 40, 40, 40, 30, 20, 10, 10>>,
   <<100, 100, 95, 90, 30, 20, 15, 12, 10, 8, 6, 4, 0>>,
   <<100, 90, 60>>, <<>>}

\* evaluar_cumplimiento_restricciones(mezcla_pct).
EvaluarCumplimientoRestricciones ==
  /\ EnReposo
  /\ \E m \in MezclasCumplimiento :
       LET mezcla_pct == [k \in 1..Len(m) |-> m[k] * QPct]
       IN /\ prueba' = [entrada |-> mezcla_pct,
                        salida |-> evaluar_cumplimiento_restricciones(
                                     mezcla_pct, HAYSTACK_LIMITS, TARANTULA_LIMITS),
                        excepcion |-> FALSE]
          /\ llamada' = [LlamadaNinguna EXCEPT !.op = "evaluar_cumplimiento_restricciones"]
  /\ UNCHANGED <<HAYSTACK_LIMITS, TARANTULA_LIMITS, solver, res, diseno>>

NextFunciones ==
  \/ CalcularResistenciaMedia
  \/ GenerarCurvaIdealPower45
  \/ CalcularRetenido
  \/ EvaluarZonaShilstone
  \/ CalcularCF
  \/ CalcularFactoresShilstone
  \/ CalcularMezclaGranulometrica
  \/ CalcularMezclaVolumetrica
  \/ EvaluarCumplimientoRestricciones
  \/ Retornar

SpecFunciones == Init /\ [][NextFunciones]_vars

\* ------------------------------------------------------------------------
\* The last optimizer call, as the properties below read it
\* ------------------------------------------------------------------------

\* The call went through optimizar_agregados's own signature.
LlamadaDirecta == llamada.op = "optimizar_agregados"

LlamadaPersonalizada == llamada.op = "optimizar_con_restricciones_personalizadas"

\* The number of aggregates the last call combined.
NumCombinados == Min2(Len(llamada.granulometrias), llamada.num_agregados)

GranulometriasDeLaLlamada ==
  [j \in 1..NumCombinados |->
     AjustarLongitud(llamada.granulometrias[j], Len(TAMICES_POWER45))]

DensidadesDeLaLlamada ==
  SubSeq(llamada.densidades, 1, Min2(NumCombinados, Len(llamada.densidades)))

\* The objective at x with the weights the caller passed, the tables being
\* those the call read.
ObjetivoDelLlamador(x) ==
  funcion_objetivo(x, GranulometriasDeLaLlamada,
                   generar_curva_ideal_power45(llamada.tmn), DensidadesDeLaLlamada,
                   llamada.pesos.haystack, llamada.pesos.tarantula,
                   llamada.pesos.shilstone, HAYSTACK_LIMITS, TARANTULA_LIMITS)

\* The solver ran and returned.
SolverRetorno == Len(solver.x) > 0 /\ ~solver.raises

\* ------------------------------------------------------------------------
\* Properties
\* ------------------------------------------------------------------------

\* C1: in every result with exito = True the returned proporciones sum to
\* 100 (the returned entries are multiples of 0.01, so within 1e-6 is
\* equality).
C1_ProporcionesSuman100 ==
  res.exito => SumSeq(res.proporciones) = 100 * Q

\* C2: in every successful result of optimizar_con_restricciones_personalizadas
\* called with one (min, max) pair per aggregate, each returned proportion lies
\* within its pair.
C2_LimitesPorComponente ==
  (LlamadaPersonalizada /\ res.exito
     /\ Len(llamada.limites) = Len(llamada.granulometrias))
  => \A j \in 1..Len(res.proporciones) :
       /\ llamada.limites[j][1] * Q <= res.proporciones[j]
       /\ res.proporciones[j] <= llamada.limites[j][2] * Q

\* C3: a successful optimizar_agregados call on N gradations, the other
\* arguments left at their defaults, returns N proportions.
C3_UnPesoPorAgregado ==
  (LlamadaDirecta /\ ~llamada.num_dado /\ llamada.proporciones_iniciales = <<>>
     /\ llamada.densidades = <<>> /\ res.exito)
  => Len(res.proporciones) = Len(llamada.granulometrias)

\* C4: when the solver returns, exito is True exactly when the solver reports
\* success or its final objective is strictly below the objective at the
\* initial guess, both evaluated with the caller's weights.
C4_AceptacionConPesosDelLlamador ==
  (LlamadaDirecta /\ SolverRetorno)
  => (res.exito <=>
        (solver.success
           \/ MLess(ObjetivoDelLlamador(solver.x),
                    ObjetivoDelLlamador(PuntoInicial(llamada.proporciones_iniciales,
                                                     NumCombinados)))))

\* C5: a call of optimizar_agregados, from any caller, never raises to that
\* caller.
C5_NuncaPropagaExcepcion ==
  llamada.op \in {"optimizar_agregados", "pagina_optimizar"} => res.kind /= "excepcion"

C7_TablasSinCambio ==
  /\ HAYSTACK_LIMITS = HAYSTACK_LIMITS_INICIAL
  /\ TARANTULA_LIMITS = TARANTULA_LIMITS_INICIAL

\* C8: with densities that differ between aggregates whose gradations differ,
\* and every aggregate taking part, the returned blend differs from the blend
\* the same proportions give without densities.
C8_MezclaVolumetricaDistinta ==
  (LlamadaDirecta /\ res.exito /\ Len(DensidadesDeLaLlamada) = NumCombinados
     /\ NumCombinados = 2
     /\ DensidadesDeLaLlamada[1] /= DensidadesDeLaLlamada[2]
     /\ GranulometriasDeLaLlamada[1] /= GranulometriasDeLaLlamada[2]
     /\ \A j \in 1..2 : solver.x[j] > 0)
  => LET sin_densidades ==
           calcular_mezcla_granulometrica(solver.x, GranulometriasDeLaLlamada)
     IN res.mezcla_granulometria
          /= [k \in 1..Len(sin_densidades) |-> RoundHalfEven(sin_densidades[k], Q)]

\* The 1-based position of a sieve (micrometres) in the optimizer's sieve list.
PosicionTamiz(tamiz) == CHOOSE k \in 1..Len(TAMICES_POWER45) : TAMICES_POWER45[k] = tamiz

\* C9: the workability factor in shilstone_factors is the blend's percent
\* passing the 2.36 mm sieve.
C9_PasaTamiz8 ==
  res.exito => res.shilstone_factors.wf = res.mezcla_granulometria[PosicionTamiz(2360)]

\* The ratio disenar_mezcla_faury is to use: the manual one when a positive one
\* was given, else the table's (units of 1e-4).
C10_RazonEsperada ==
  IF llamada.manual_ac /= None /\ llamada.manual_ac > 0 THEN llamada.manual_ac
  ELSE obtener_razon_ac(diseno.fd_kgcm2)

\* C10: in every design the reported ratio is the manual ratio when one was
\* given and the table's otherwise (to 3 decimals), the reported water is
\* cement times that ratio (to 1 decimal), and so reported water and
\* cement times reported ratio agree within the two roundings.
C10_AguaCementoPorRazon ==
  diseno.hecho
  => /\ Abs(10 * diseno.razon - C10_RazonEsperada) <= 5
     /\ Abs(1000 * diseno.agua_amasado - diseno.cemento * C10_RazonEsperada) <= 500
     /\ Abs(200 * diseno.agua_amasado - 2 * diseno.cemento * diseno.razon)
          <= 100 + diseno.cemento

\* C10 witness: a design with a manual ratio that is not the table's.
C10_Testigo ==
  /\ diseno.hecho
  /\ llamada.manual_ac = 5000
  /\ obtener_razon_ac(diseno.fd_kgcm2) /= 5000
  /\ diseno.razon = 500
  /\ diseno.cemento > 0

\* The last call was a design that returned.
DisenoHecho == llamada.op = "disenar_mezcla_faury" /\ diseno.hecho

\* The air volume a design is to use: the manual litres when supplied, else
\* the table's value for the nominal size plus aire_porcentaje * 10.
C11_AireEsperado ==
  IF llamada.manual_aire_litros /= None THEN llamada.manual_aire_litros * (VL \div 10)
  ELSE obtener_aire_ocluido(llamada.tmn, 0) + llamada.aire_porcentaje * 10 * (VL \div 10)

\* C11: the air volume of a design is manual_aire_litros when supplied, and
\* otherwise the table's interpolated value for the nominal size plus
\* aire_porcentaje * 10 litres, for every nominal size and extra-air
\* percentage >= 0.
C11_AirePorTablaMasPorcentaje ==
  DisenoHecho => diseno.aire_lt = C11_AireEsperado

\* The results the last design call can return under another exposure class.
C12_ConOtraClase(ce) ==
  disenar_mezcla_faury(
    llamada.resistencia_fc, llamada.desviacion_std, llamada.fraccion_def,
    llamada.consistencia, llamada.tmn, llamada.densidad_cemento, llamada.aridos,
    llamada.aire_porcentaje, ce, llamada.aditivos_config,
    llamada.proporciones_personalizadas, llamada.manual_ac, llamada.manual_aire_litros)

\* C12: the exposure class changes nothing of a design but
\* referencias_durabilidad: the design is one the same arguments give with
\* "Sin riesgo", the cement is the cement by strength (never raised to the
\* class minimum), cumple_cemento holds exactly when the cement is at least
\* the class minimum and cumple_ac exactly when the ratio is at most the class
\* maximum.
C12_ClaseSoloInforma ==
  DisenoHecho
  => /\ \E d \in C12_ConOtraClase("Sin riesgo") :
          [d EXCEPT !.referencias = diseno.referencias] = diseno
     /\ diseno.cemento = calcular_cemento(diseno.fd_kgcm2)
     /\ diseno.referencias.cumple_cemento
          <=> (diseno.cemento >= RequisitosDe(llamada.condicion_exposicion).min_cemento)
     /\ diseno.referencias.cumple_ac
          <=> (diseno.ac_ratio <= RequisitosDe(llamada.condicion_exposicion).max_ac)

\* C12 witness: a design for severe corrosion whose cement is below the
\* class minimum of 330 kg and whose ratio is above the class maximum of 0.40.
C12_Testigo ==
  /\ DisenoHecho
  /\ llamada.condicion_exposicion = "Corrosion severa / Cloruros"
  /\ diseno.cemento < 330
  /\ diseno.ac_ratio > 4000
  /\ ~diseno.referencias.cumple_cemento
  /\ ~diseno.referencias.cumple_ac

\* The aggregates' volume in litres (units of 1e-4): each mass over its dry density.
C13_VolumenAridos ==
  SumSeq([i \in 1..Len(diseno.cantidades) |->
            MulDivRound(diseno.cantidades[i], 1000, llamada.aridos[i].DRS)])

\* C13: in a design with 2 or 3 aggregates, Faury split or custom split, the
\* volumes of cement, water, air, admixtures and aggregates (mass over dry
\* density) add up to 1000 litres, and the volumetric fractions of cement and
\* aggregates add up to 1; both before output rounding, i.e. within the
\* fixed-point resolution of the locals (4e-4 litre; 2e-8).
C13_VolumenUnitario ==
  (DisenoHecho /\ Len(llamada.aridos) \in {2, 3})
  => /\ Abs(diseno.vol_cemento_lt + diseno.vol_agua_lt + diseno.aire_lt
              + diseno.volumen_aditivos_lt + C13_VolumenAridos - 1000 * VL) <= 4
     /\ Abs(diseno.c_vol + SumSeq(diseno.proporciones_vol) - UNO) <= 2

\* C13 witness: three aggregates with custom proportions and two admixtures,
\* compactness below 1.
C13_Testigo ==
  /\ DisenoHecho
  /\ Len(llamada.aridos) = 3
  /\ llamada.proporciones_personalizadas = <<20, 30, 50>>
  /\ Len(llamada.aditivos_config) = 2
  /\ diseno.volumen_aditivos_lt > 0
  /\ diseno.compacidad < 1000 * VL
  /\ \A i \in 1..3 : diseno.cantidades[i] > 0

\* C14: custom proportions, one per aggregate and of positive sum, are
\* assigned directly: each aggregate's volumetric fraction over the
\* aggregates' total is its proportion over the proportions' sum, in input
\* order, whatever the consistency and the nominal size.
C14_ProporcionesDirectas ==
  (DisenoHecho /\ Len(llamada.proporciones_personalizadas) = Len(llamada.aridos)
     /\ Len(llamada.aridos) \in {2, 3}
     /\ SumSeq(llamada.proporciones_personalizadas) > 0)
  => /\ Len(diseno.proporciones_vol) = Len(llamada.aridos)
     /\ \A i \in 1..Len(diseno.proporciones_vol) :
          Abs(diseno.proporciones_vol[i]
                - MulDivRound(SumSeq(diseno.proporciones_vol),
                              llamada.proporciones_personalizadas[i],
                              SumSeq(llamada.proporciones_personalizadas))) <= 2

\* C14 witness: 30/70 on two aggregates with a dry consistency, where the
\* Faury split would give the coarse aggregate 0.46.
C14_Testigo ==
  /\ DisenoHecho
  /\ llamada.proporciones_personalizadas = <<30, 70>>
  /\ llamada.consistencia = "Seca"
  /\ diseno.proporciones_vol[1] < diseno.proporciones_vol[2]
  /\ diseno.proporciones_vol[1] > 0

\* C15: with a superplasticizer at 1 % of the cement the reported
\* agua_amasado is 11 % to 13 % below the water of the same design without
\* it, which is cement times ratio.
C15_ReduccionDeAgua ==
  (DisenoHecho /\ Len(llamada.aditivos_config) = 1
     /\ llamada.aditivos_config[1].dosis_pct = 10)
  => LET w_base == diseno.cemento * diseno.ac_ratio
         w_sp == diseno.agua_amasado * (VL \div 10)
     IN /\ 11 * (w_base \div 100) <= w_base - w_sp
        /\ w_base - w_sp <= 13 * (w_base \div 100)

\* The coefficient t (units of 1/5000) by linear interpolation over the three
\* breakpoints 5 % -> 1.645, 10 % -> 1.282, 20 % -> 0.842.
C16_CoeficienteTresPuntos(f) ==
  IF f <= 5 THEN 5 * 1645
  ELSE IF f >= 20 THEN 5 * 842
  ELSE IF f <= 10 THEN 5 * 1645 + (f - 5) * (1282 - 1645)
  ELSE (10 * 1282 + (f - 10) * (842 - 1282)) \div 2

\* C16: calcular_resistencia_media returns fc + s * t with t interpolated over
\* the breakpoints 5 % -> 1.645, 10 % -> 1.282, 20 % -> 0.842; fc = 30, s = 4 at
\* 10 % gives 35.128; the mean exceeds fc when s > 0.
C16_ResistenciaMediaTresPuntos ==
  llamada.op = "calcular_resistencia_media"
  => LET fc == prueba.entrada[1]
         s == prueba.entrada[2]
         f == prueba.entrada[3]
     IN /\ prueba.salida[1] = C16_CoeficienteTresPuntos(f)
        /\ prueba.salida[2] = fc * 50000 + s * C16_CoeficienteTresPuntos(f)
        /\ (fc = 30 /\ s = 40 /\ f = 10) => prueba.salida[2] = 35128 * 50
        /\ (s > 0) => prueba.salida[2] > fc * 50000

\* C17: on every sieve the band is (blend - tol, blend + tol) clipped to
\* [0, 100] and contains the blend, before and after the rounding of the
\* output, for every blend a design produces.
C17_BandaContieneMezcla ==
  DisenoHecho
  => \A k \in 1..Len(diseno.mezcla) :
       /\ diseno.banda[k][1] = Max2(0, diseno.mezcla[k] - TOLERANCIAS_BANDA[k] * PCT)
       /\ diseno.banda[k][2] = Min2(100 * PCT, diseno.mezcla[k] + TOLERANCIAS_BANDA[k] * PCT)
       /\ diseno.banda[k][1] <= diseno.mezcla[k]
       /\ diseno.mezcla[k] <= diseno.banda[k][2]
       /\ diseno.banda_trabajo[k][1] <= diseno.granulometria_mezcla[k]
       /\ diseno.granulometria_mezcla[k] <= diseno.banda_trabajo[k][2]

\* C18: for every nominal size and the default sieves, the ideal curve does
\* not decrease as the sieve size increases and is exactly 100 at every sieve
\* at or above the nominal size.
C18_CurvaIdealMonotona ==
  llamada.op = "generar_curva_ideal_power45"
  => LET tmn == prueba.entrada[1]
         ideales == prueba.salida
     IN /\ Len(ideales) = Len(TAMICES_POWER45)
        /\ \A i \in 1..Len(ideales) :
             /\ TAMICES_POWER45[i] >= tmn => ideales[i] = 100 * QPct
             /\ i < Len(ideales) => ideales[i] >= ideales[i + 1]

\* C18 witness: nominal size 25 mm; 100 at 50, 37.5 and 25 mm, and a strictly
\* rising curve from 12.5 mm to 19 mm below it.
C18_Testigo ==
  /\ llamada.op = "generar_curva_ideal_power45"
  /\ prueba.entrada = <<25000>>
  /\ prueba.salida[1] = 100 * QPct
  /\ prueba.salida[3] = 100 * QPct
  /\ prueba.salida[4] < 100 * QPct
  /\ prueba.salida[5] < prueba.salida[4]

\* C19: at every sieve d below the nominal size D the ideal value is
\* 100 * d^0.45 / D^0.45 (to 0.01 %), and for D = 25 mm the value at 0.075 mm
\* is strictly between 0 and 100.
C19_CurvaIdealProporcional ==
  llamada.op = "generar_curva_ideal_power45"
  => LET tmn == prueba.entrada[1]
         ideales == prueba.salida
     IN /\ \A i \in 1..Len(ideales) :
             TAMICES_POWER45[i] < tmn
             => Abs(ideales[i] - PorcentajeQ(calcular_valor_power45(TAMICES_POWER45[i]),
                                             calcular_valor_power45(tmn)))
                  <= QPct \div 100
        /\ tmn = 25000 => (0 < ideales[PosicionTamiz(75)]
                             /\ ideales[PosicionTamiz(75)] < 100 * QPct)

\* The curve is within [0, 100] and does not rise as the sieves get finer.
C20_CurvaValida(pasa) ==
  /\ \A i \in 1..Len(pasa) : 0 <= pasa[i] /\ pasa[i] <= 100 * QPct
  /\ \A i \in 1..(Len(pasa) - 1) : pasa[i] >= pasa[i + 1]

\* C20: for a non-increasing passing curve within [0, 100], every retained
\* value is at least 0 and 100 minus the running sum of the retained values
\* gives the curve back.
C20_IdaYVuelta ==
  (llamada.op = "calcular_retenido" /\ C20_CurvaValida(prueba.entrada))
  => /\ Len(prueba.salida) = Len(prueba.entrada)
     /\ \A i \in 1..Len(prueba.salida) :
          /\ prueba.salida[i] >= 0
          /\ 100 * QPct - SumSeq(SubSeq(prueba.salida, 1, i)) = prueba.entrada[i]

\* C20 witness: the curve 65, 65, 30, whose retained values are 35, 0, 35.
C20_Testigo ==
  /\ llamada.op = "calcular_retenido"
  /\ prueba.entrada = <<65 * QPct, 65 * QPct, 30 * QPct>>
  /\ prueba.salida = <<35 * QPct, 0, 35 * QPct>>

\* C21: evaluar_zona_shilstone puts every point in one of the five zones
\* Optimal, Rocky, Sandy, Over-sanded and Under-workable, and its list of
\* recommendations is never empty.
C21_UnaDeCincoZonas ==
  llamada.op = "evaluar_zona_shilstone"
  => /\ prueba.salida.zona \in {"Zona I - Optima", "Zona Rocky", "Zona Arenosa",
                                "Zona Sobredisenada", "Zona de Baja Trabajabilidad"}
     /\ prueba.salida.recomendaciones /= <<>>

\* C22: with Wadj in [27, 45] a CF above 75 is Rocky and a CF below 45 is Sandy;
\* a point is Optimal only inside the box CF in [45, 75], Wadj in [27, 45] and
\* between the lines Wadj = -0.138 CF + 49.8 and Wadj = -0.1 CF + 37; CF = 60,
\* Wadj = 35 is Optimal.
C22_ZonaPorLineas ==
  llamada.op = "evaluar_zona_shilstone"
  => LET CF == prueba.entrada[1]
         Wadj == prueba.entrada[2]
         zona == prueba.salida.zona
     IN /\ (2700 <= Wadj /\ Wadj <= 4500 /\ CF > 7500) => zona = "Zona Rocky"
        /\ (2700 <= Wadj /\ Wadj <= 4500 /\ CF < 4500) => zona = "Zona Arenosa"
        /\ zona = "Zona I - Optima"
           => /\ 4500 <= CF /\ CF <= 7500 /\ 2700 <= Wadj /\ Wadj <= 4500
              /\ 1000 * Wadj <= 4980000 - 138 * CF
              /\ 10 * Wadj >= 37000 - CF
        /\ (CF = 6000 /\ Wadj = 3500) => zona = "Zona I - Optima"

\* C22 witness: CF = 60, Wadj = 35 came out as Zona I.
C22_Testigo ==
  /\ llamada.op = "evaluar_zona_shilstone"
  /\ prueba.entrada = <<6000, 3500>>
  /\ prueba.salida.zona = "Zona I - Optima"

\* cf (hundredths) is 100 * (100 - pasa_3_8) / (100 - pasa_8) to the nearest
\* hundredth when 100 - pasa_8 > 0 and 0 otherwise, and lies in [0, 100] when
\* pasa_8 <= pasa_3_8 <= 100 (arguments in hundredths).
C23_FactorCorrecto(pasa_3_8, pasa_8, cf) ==
  /\ 100 * 100 - pasa_8 > 0
     => 2 * Abs(cf * (100 * 100 - pasa_8) - (100 * 100 - pasa_3_8) * 100 * 100)
          <= 100 * 100 - pasa_8
  /\ 100 * 100 - pasa_8 <= 0 => cf = 0
  /\ (pasa_8 <= pasa_3_8 /\ pasa_3_8 <= 100 * 100) => (0 <= cf /\ cf <= 100 * 100)

\* C23: calcular_CF, and calcular_factores_shilstone on the two values it reads
\* as passing 3/8 in and #8, return 100 * (100 - pass_3_8) / (100 - pass_8) when
\* 100 - pass_8 > 0 and 0 otherwise, without raising, and a value within
\* [0, 100] for pass_8 <= pass_3_8 <= 100.
C23_FactorDeGrosor ==
  /\ llamada.op = "calcular_CF"
     => /\ ~prueba.excepcion
        /\ C23_FactorCorrecto(prueba.entrada[1], prueba.entrada[2], prueba.salida[1])
  /\ (llamada.op = "calcular_factores_shilstone" /\ Len(prueba.entrada) >= 7)
     => /\ ~prueba.excepcion
        /\ C23_FactorCorrecto(prueba.entrada[4 + 1] \div Q, prueba.entrada[6 + 1] \div Q,
                              prueba.salida[1])

\* C23 witness: everything passes #8, the denominator is 0 and calcular_CF
\* returned 0.
C23_Testigo ==
  /\ llamada.op = "calcular_CF"
  /\ prueba.entrada = <<100 * 100, 100 * 100>>
  /\ prueba.salida = <<0>>

\* Every gradation of the last call is the same list, and all of them were
\* combined.
C24_TodasIguales ==
  /\ LlamadaDirecta
  /\ Len(llamada.granulometrias) >= 2
  /\ NumCombinados = Len(llamada.granulometrias)
  /\ \A j \in 1..Len(llamada.granulometrias) :
       llamada.granulometrias[j] = llamada.granulometrias[1]

\* The Power-45 deviation the result reports is that of the single gradation.
C24_DesviacionDeUna ==
  res.error_power45 =
    calcular_error_power45([k \in 1..Len(TAMICES_POWER45) |->
                              GranulometriasDeLaLlamada[1][k] * QPct],
                           generar_curva_ideal_power45(llamada.tmn)).hi

\* C24: when all input gradations are identical, optimizar_agregados does not
\* raise, and a successful result has proportions that sum to 100 and the
\* Power-45 deviation of the single gradation.
C24_GranulometriasIguales ==
  C24_TodasIguales
  => /\ res.kind /= "excepcion"
     /\ res.exito => (SumSeq(res.proporciones) = 100 * Q /\ C24_DesviacionDeUna)

\* The last design call had a nominal size or a cement density that is not
\* positive, or no aggregates.
C25_EntradaInvalida ==
  /\ llamada.op = "disenar_mezcla_faury"
  /\ \/ llamada.tmn <= 0
     \/ llamada.densidad_cemento <= 0
     \/ Len(llamada.aridos) = 0

\* C25: disenar_mezcla_faury called with tmn <= 0, a cement density <= 0 or an
\* empty aggregate list fails with an error and returns no result.
C25_FallaSinResultado ==
  C25_EntradaInvalida => (diseno.excepcion /\ ~diseno.hecho)

\* The mass fractions of the design before rounding sum to 1 (units of 1e-8,
\* one unit of rounding per aggregate).
C30_FraccionesSumanUno ==
  Abs(SumSeq(diseno.proporciones_peso) - UNO) <= Len(diseno.proporciones_peso)

\* C30: a design with 2 or 3 aggregates returns one entry per aggregate in
\* cantidades_kg_m3 and in proporciones_peso, whatever the names of the
\* aggregates, and its mass fractions sum to 1 before rounding.
C30_UnaEntradaPorArido ==
  (DisenoHecho /\ Len(llamada.aridos) \in {2, 3})
  => /\ Cardinality(DOMAIN diseno.cantidades_kg_m3) = Len(llamada.aridos)
     /\ Cardinality(DOMAIN diseno.proporciones_peso_final) = Len(llamada.aridos)
     /\ C30_FraccionesSumanUno

\* C26: generar_curva_ideal_power45 called with tmn <= 0 fails with an error
\* and returns no curve.
C26_TmnInvalidoFalla ==
  (llamada.op = "generar_curva_ideal_power45" /\ prueba.entrada[1] <= 0)
  => (prueba.excepcion /\ prueba.salida = <<>>)

\* The blend at sieve i is sum_j proporciones[j] * granulometrias[j][i] over the
\* sum of the proportions, to the 2 decimals the blend is rounded to (q units).
C27_MezclaNormalizada(proporciones, granulometrias, mezcla) ==
  /\ Len(mezcla) = Len(granulometrias[1])
  /\ \A i \in 1..Len(mezcla) :
       2 * Abs(mezcla[i] * SumSeq(proporciones)
                 - QPct * SumSeq([j \in 1..Len(proporciones) |->
                                    proporciones[j] * granulometrias[j][i]]))
         <= Q * SumSeq(proporciones)

\* C27: the blend functions normalise the proportions to sum 1, so the blend
\* is sum_j proporciones[j] * granulometrias[j][i] / sum(proporciones) whatever
\* the scale of the proportions, and they fail instead of returning a curve
\* when the proportions sum to 0.
C27_MezclaPorSuma ==
  llamada.op \in {"calcular_mezcla_granulometrica", "calcular_mezcla_volumetrica"}
  => IF SumSeq(prueba.entrada.proporciones) = 0
     THEN prueba.excepcion
     ELSE /\ ~prueba.excepcion
          /\ C27_MezclaNormalizada(prueba.entrada.proporciones,
                                   prueba.entrada.granulometrias, prueba.salida)

\* C28: calcular_retenido given a passing curve that rises from one sieve to
\* the next finer one, or starts above 100, signals it (fails) rather than
\* returning a retained vector.
C28_CurvaNoMonotonaSenalada ==
  (/\ llamada.op = "calcular_retenido"
   /\ \/ \E i \in 2..Len(prueba.entrada) : prueba.entrada[i] > prueba.entrada[i - 1]
      \/ (Len(prueba.entrada) > 0 /\ prueba.entrada[1] > 100 * QPct))
  => prueba.excepcion

\* The three penalties of the blend the report was asked for.
C29_SinPenalizacion ==
  [haystack |-> calcular_penalizacion_haystack(prueba.entrada, HAYSTACK_LIMITS) = MZero,
   tarantula |-> calcular_penalizacion_tarantula(prueba.entrada, TARANTULA_LIMITS) = MZero,
   shilstone |-> calcular_penalizacion_shilstone(prueba.entrada) = MZero]

\* C29: evaluar_cumplimiento_restricciones reports cumple for Haystack,
\* Tarantula and Shilstone exactly when the matching penalty of the blend is
\* zero, and cumple_todo exactly when all three penalties are zero.
C29_CumpleSiSinPenalizacion ==
  llamada.op = "evaluar_cumplimiento_restricciones"
  => /\ prueba.salida.haystack.cumple <=> C29_SinPenalizacion.haystack
     /\ prueba.salida.tarantula.cumple <=> C29_SinPenalizacion.tarantula
     /\ prueba.salida.shilstone.cumple <=> C29_SinPenalizacion.shilstone
     /\ prueba.salida.cumple_todo
          <=> (/\ C29_SinPenalizacion.haystack
               /\ C29_SinPenalizacion.tarantula
               /\ C29_SinPenalizacion.shilstone)

=============================================================================
